---- MODULE Spec2Model ----
(***************************************************************************)
(* Pipeline orchestrator of BRKOPS-2585: one PipelineJob row, the arq      *)
(* tasks process_pipeline_job / continue_pipeline_after_approval working   *)
(* on their own SQLAlchemy session copy of the row, and the HTTP handlers  *)
(* of routers/operations.py and routers/jobs.py.                           *)
(*                                                                         *)
(* The stage sequence is the one tasks/pipeline.py iterates over and       *)
(* routers/operations.py creates records for (11 names).  The enum         *)
(* PipelineStage in db/models.py declares only 10 members (it has no       *)
(* BASELINE_COLLECTION) and worker.py does not list                        *)
(* continue_pipeline_after_approval; the model follows the task functions  *)
(* as written and lets the worker run both of them.                        *)
(*                                                                         *)
(* Specifications: Spec (the whole orchestrator), SpecGate (a job waiting  *)
(* at the approval gate, fair runs), SpecRetry (a failed job that is       *)
(* retried), SpecDemo (one run alone, demo_mode on and off), SpecOspf      *)
(* (build_ospf_area_change of services/config_builder.py, input by input;  *)
(* what a device does with the lines is IOS behaviour, not repository      *)
(* code).                                                                  *)
(* SpecAcl (build_security_acl and its rollback), SpecCred                 *)
(* (build_credential_rotation), SpecResolver (resolve_target_devices of    *)
(* services/device_resolver.py), SpecIntent (process_intent_parsing of one *)
(* run) and SpecMonitor (the diff and health part of process_monitoring)   *)
(* each take their inputs from bounded sets and apply the function.        *)
(* SpecApprove (continuations and approve calls on a job at the gate),     *)
(* SpecEvents (one run with the WebSocket manager of                       *)
(* services/websocket_manager.py), SpecRollback (one run with rollback     *)
(* calls), SpecCollect (baseline collection and monitoring with failing    *)
(* metric commands), SpecFleet (a multi-device job that is deployed and    *)
(* rolled back) and SpecParser (parse_running_config of                    *)
(* services/config_builder.py, line by line).                              *)
(***************************************************************************)
EXTENDS Integers, Sequences, FiniteSets, TLC

\* ---------------------------------------------------------------- bounds
MaxTasks == 2
MaxRollbacks == 2

\* ------------------------------------------------------- program constants
max_retries == 3

Stages ==
  << "voice_input", "intent_parsing", "config_generation", "ai_advice",
     "human_decision", "baseline_collection", "cml_deployment", "monitoring",
     "splunk_analysis", "ai_validation", "notifications" >>

PostApprovalStages ==
  << "baseline_collection", "cml_deployment", "monitoring",
     "splunk_analysis", "ai_validation", "notifications" >>

StageNames == { Stages[n] : n \in 1..Len(Stages) }
PostNames == { PostApprovalStages[n] : n \in 1..Len(PostApprovalStages) }
StageKeys == StageNames \cup {"rollback"}

JobStatus ==
  {"pending", "queued", "running", "paused", "completed", "failed", "cancelled"}

Terminal == {"completed", "failed", "cancelled"}

IndexOf(s) == CHOOSE n \in 1..Len(Stages) : Stages[n] = s

\* a stage record: status and an abstraction of its data
\*   "none"  no data            "full"  deployed true / non-empty rollback list
\*   "empty" deployed false, collected false or empty rollback list
\*   "error" the error text of a failed stage
Rec(st, d) == [status |-> st, data |-> d]

PendingStages == [s \in StageKeys |-> Rec("pending", "none")]

NoJob ==
  [exists |-> FALSE, status |-> "pending", stage |-> "voice_input",
   sd |-> PendingStages, retry |-> 0]

NoObj == [status |-> "pending", stage |-> "voice_input", sd |-> PendingStages]

\* the config builder is not in use
NoBuild == [phase |-> "idle"]

VARIABLES
  db,           \* the pipeline_jobs row as committed
  tasks,        \* arq tasks in enqueue order, each with its position and session copy
  evt,          \* type of the last event handed to the WebSocket manager
  rejected,     \* history: the last accepted decision is a rejection, no retry since
  rollbacks,    \* history: rollback calls that applied commands to the devices
  cfg           \* one use of the config builder: its input and what it returned

vars == << db, tasks, evt, rejected, rollbacks, cfg >>

\* ------------------------------------------------------------ persistence
\* The session of a handler or task holds obj, loaded from the row.  A commit
\* writes a scalar column only when its value differs from the loaded one and
\* writes the JSONB column stages_data only when flag_modified was called.
Flush(d, old, new, flagged) ==
  [d EXCEPT !.status = IF new.status # old.status THEN new.status ELSE @,
            !.stage  = IF new.stage # old.stage THEN new.stage ELSE @,
            !.sd     = IF flagged THEN new.sd ELSE @]

ObjOf(d) == [status |-> d.status, stage |-> d.stage, sd |-> d.sd]

Task(fn, demo) == [fn |-> fn, demo |-> demo, pc |-> "queued", i |-> 0, obj |-> NoObj]

Enqueue(fn, demo) == Append(tasks, Task(fn, demo))

Done(t) == [t EXCEPT !.pc = "done", !.i = 0, !.obj = NoObj]

\* between two stages only the status of the session copy is read again
\* (every other attribute is reloaded by the refresh that follows)
Stale(obj) == [NoObj EXCEPT !.status = obj.status]

\* the stage list a task function iterates over
StageList(fn) == IF fn = "ppj" THEN Stages ELSE PostApprovalStages

CurStage(t) == StageList(t.fn)[t.i]

Init ==
  /\ db = NoJob
  /\ tasks = << >>
  /\ evt = "none"
  /\ rejected = FALSE
  /\ rollbacks = 0
  /\ cfg = NoBuild


\* ------------------------------------------------------- stage handlers
\* What a handler can hand back: "full" / "empty" / "flagged" are returned
\* dicts ("flagged": a dict carrying success false or an error), "raise" is
\* an exception.  voice_input and human_decision only build a dict.
Results(stage) ==
  CASE stage \in {"voice_input", "human_decision"} -> {"full"}
    [] stage \in {"intent_parsing", "ai_advice"} -> {"full", "flagged", "raise"}
    [] stage = "config_generation" -> {"full", "empty", "flagged", "raise"}
    [] stage \in {"baseline_collection", "cml_deployment"} -> {"full", "empty", "raise"}
    [] OTHER -> {"full", "raise"}

\* process_pipeline_job's test of a returned dict: deployed is False,
\* success is False, or an error with neither deployed nor success
StageFailedIndicator(stage, result) ==
  \/ result = "flagged"
  \/ result = "empty" /\ stage \in {"baseline_collection", "cml_deployment"}

\* does the run treat this handler outcome as a failure of the stage
HandlerFailed(fn, stage, result) ==
  \/ result = "raise"
  \/ fn = "ppj" /\ StageFailedIndicator(stage, result)

\* process_pipeline_job stops after the stage it has just completed
GateStops(fn, stage) == fn = "ppj" /\ stage = "human_decision"

\* continue_pipeline_after_approval refuses a job that is not at the gate
ContinuationAccepts(d) == d.stage = "human_decision"

\* the cooperative cancellation test at the top of every loop iteration
CancelSeen(obj) == obj.status = "cancelled"

\* ------------------------------------------------------------ the worker
\* the worker takes a task off the queue: the function loads the job row
Load(k) ==
  /\ tasks[k].pc = "queued"
  /\ IF tasks[k].fn = "cont" /\ ~ContinuationAccepts(db)
       THEN tasks' = [tasks EXCEPT ![k] = Done(@)]
       ELSE tasks' = [tasks EXCEPT ![k].pc = "loaded", ![k].obj = ObjOf(db)]
  /\ UNCHANGED << db, evt, rejected, rollbacks, cfg >>

\* process_pipeline_job: validate_mcp_servers found no usable CML server
McpUnavailable(k) ==
  /\ tasks[k].pc = "loaded"
  /\ tasks[k].fn = "ppj"
  /\ LET old == tasks[k].obj
         new == [old EXCEPT !.status = "failed"]
     IN  db' = Flush(db, old, new, FALSE)
  /\ tasks' = [tasks EXCEPT ![k] = Done(@)]
  /\ evt' = "operation.error"
  /\ UNCHANGED << rejected, rollbacks, cfg >>

\* job.status = RUNNING; commit; broadcast started / resumed
SetRunning(k) ==
  /\ tasks[k].pc = "loaded"
  /\ LET old == tasks[k].obj
         new == [old EXCEPT !.status = "running"]
     IN  /\ db' = Flush(db, old, new, FALSE)
         /\ tasks' = [tasks EXCEPT ![k].pc = "top", ![k].i = 1, ![k].obj = Stale(new)]
  /\ evt' = IF tasks[k].fn = "ppj" THEN "operation.started" ELSE "operation.resumed"
  /\ UNCHANGED << rejected, rollbacks, cfg >>

\* top of the loop: refresh, stop when cancelled, else mark the stage running
StageBegin(k) ==
  /\ tasks[k].pc = "top"
  /\ tasks[k].i <= Len(StageList(tasks[k].fn))
  /\ LET obj == ObjOf(db)
         stage == CurStage(tasks[k])
         new == [obj EXCEPT !.stage = stage, !.sd[stage] = Rec("running", "none")]
     IN  IF CancelSeen(obj)
           THEN /\ tasks' = [tasks EXCEPT ![k] = Done(@)]
                /\ UNCHANGED << db, evt >>
           ELSE /\ db' = Flush(db, obj, new, TRUE)
                /\ tasks' = [tasks EXCEPT ![k].pc = "handler", ![k].obj = new]
                /\ evt' = "operation.stage_changed"
  /\ UNCHANGED << rejected, rollbacks, cfg >>

\* the handler returned or raised: the stage record is completed or failed
StageEnd(k, result) ==
  /\ tasks[k].pc = "handler"
  /\ result \in Results(CurStage(tasks[k]))
  /\ LET t == tasks[k]
         old == t.obj
         stage == CurStage(t)
     IN  IF HandlerFailed(t.fn, stage, result)
           THEN LET new == [old EXCEPT !.sd[stage] = Rec("failed", "error"),
                                       !.status = "failed"]
                IN  /\ db' = Flush(db, old, new, TRUE)
                    /\ tasks' = [tasks EXCEPT ![k] = Done(@)]
                    /\ evt' = "operation.error"
           ELSE LET new == [old EXCEPT !.sd[stage] = Rec("completed", result)]
                IN  /\ db' = Flush(db, old, new, TRUE)
                    /\ tasks' = [tasks EXCEPT
                         ![k].obj = Stale(new),
                         ![k].pc = IF GateStops(t.fn, stage) THEN "gate"
                                   ELSE IF t.demo THEN "pause" ELSE "top",
                         ![k].i = IF GateStops(t.fn, stage) \/ t.demo THEN @ ELSE @ + 1]
                    /\ evt' = "operation.stage_changed"
  /\ UNCHANGED << rejected, rollbacks, cfg >>

\* human_decision completed: status PAUSED, commit, return
GatePause(k) ==
  /\ tasks[k].pc = "gate"
  /\ LET old == tasks[k].obj
         new == [old EXCEPT !.status = "paused"]
     IN  db' = Flush(db, old, new, FALSE)
  /\ tasks' = [tasks EXCEPT ![k] = Done(@)]
  /\ evt' = "operation.awaiting_approval"
  /\ UNCHANGED << rejected, rollbacks, cfg >>

\* demo mode: status PAUSED, commit, then sleep one second
DemoPause(k) ==
  /\ tasks[k].pc = "pause"
  /\ LET old == tasks[k].obj
         new == [old EXCEPT !.status = "paused"]
     IN  /\ db' = Flush(db, old, new, FALSE)
         /\ tasks' = [tasks EXCEPT ![k].pc = "sleep", ![k].obj = Stale(new)]
  /\ evt' = "operation.paused"
  /\ UNCHANGED << rejected, rollbacks, cfg >>

\* a demo pause that loses a stage: the loop goes on two stages further
DemoResumeSkips(k) ==
  /\ tasks[k].pc = "sleep"
  /\ LET old == tasks[k].obj
         new == [old EXCEPT !.status = "running"]
     IN  /\ db' = Flush(db, old, new, FALSE)
         /\ tasks' = [tasks EXCEPT ![k].pc = "top", ![k].i = @ + 2, ![k].obj = Stale(new)]
  /\ UNCHANGED << evt, rejected, rollbacks, cfg >>

\* demo mode: the sleep is over: status RUNNING, commit, next iteration
DemoResume(k) ==
  /\ tasks[k].pc = "sleep"
  /\ LET old == tasks[k].obj
         new == [old EXCEPT !.status = "running"]
     IN  /\ db' = Flush(db, old, new, FALSE)
         /\ tasks' = [tasks EXCEPT ![k].pc = "top", ![k].i = @ + 1, ![k].obj = Stale(new)]
  /\ UNCHANGED << evt, rejected, rollbacks, cfg >>

\* the loop ran out of stages: status COMPLETED, commit
Finish(k) ==
  /\ tasks[k].pc = "top"
  /\ tasks[k].i > Len(StageList(tasks[k].fn))
  /\ LET old == tasks[k].obj
         new == [old EXCEPT !.status = "completed"]
     IN  db' = Flush(db, old, new, FALSE)
  /\ tasks' = [tasks EXCEPT ![k] = Done(@)]
  /\ evt' = "operation.completed"
  /\ UNCHANGED << rejected, rollbacks, cfg >>


\* ---------------------------------------------------------- HTTP handlers
\* POST /operations/start: create the row and enqueue process_pipeline_job
start_operation(demo_mode, redis_ok) ==
  /\ ~db.exists
  /\ Len(tasks) < MaxTasks
  /\ db' = [exists |-> TRUE,
            status |-> IF redis_ok THEN "queued" ELSE "failed",
            stage |-> "voice_input", sd |-> PendingStages, retry |-> 0]
  /\ tasks' = IF redis_ok THEN Enqueue("ppj", demo_mode) ELSE tasks
  /\ evt' = IF redis_ok THEN "operation.started" ELSE evt
  /\ UNCHANGED << rejected, rollbacks, cfg >>

\* the only test approve_operation makes before it acts
ApproveAccepts(d) == d.exists /\ d.stage = "human_decision"

\* POST /operations/{id}/approve.  The decision is put into stages_data in
\* place, without flag_modified: the commit does not write that column.
approve_operation(approved, redis_ok) ==
  /\ ApproveAccepts(db)
  /\ (approved /\ redis_ok) => Len(tasks) < MaxTasks
  /\ LET old == ObjOf(db)
         decided == [old EXCEPT !.sd["human_decision"] = Rec("completed", "full")]
     IN  IF approved
           THEN LET new == [decided EXCEPT !.status = "running"]
                    enq == Flush(db, old, new, FALSE)
                    lost == [new EXCEPT !.status = "failed"]
                IN  /\ db' = IF redis_ok THEN enq ELSE Flush(enq, new, lost, FALSE)
                    /\ tasks' = IF redis_ok THEN Enqueue("cont", TRUE) ELSE tasks
                    /\ evt' = "operation.approved"
                    /\ rejected' = FALSE
           ELSE LET new == [decided EXCEPT !.status = "cancelled"]
                IN  /\ db' = Flush(db, old, new, FALSE)
                    /\ evt' = "operation.rejected"
                    /\ rejected' = TRUE
                    /\ UNCHANGED tasks
  /\ UNCHANGED << rollbacks, cfg >>

\* DELETE /operations/{id}
cancel_operation ==
  /\ db.exists
  /\ db.status \notin {"completed", "cancelled", "failed"}
  /\ LET old == ObjOf(db)
         new == [old EXCEPT !.status = "cancelled"]
     IN  db' = Flush(db, old, new, FALSE)
  /\ evt' = "operation.cancelled"
  /\ UNCHANGED << tasks, rejected, rollbacks, cfg >>

\* POST /operations/{id}/advance: enqueue process_pipeline_job again
advance_operation ==
  /\ db.exists
  /\ db.status = "paused"
  /\ Len(tasks) < MaxTasks
  /\ tasks' = Enqueue("ppj", TRUE)
  /\ UNCHANGED << db, evt, rejected, rollbacks, cfg >>

\* a retry_job that forgets the retry limit
RetryAcceptsNoLimit(d) ==
  /\ d.exists
  /\ d.status \in {"failed", "cancelled"}

\* the tests retry_job makes on the loaded row: 404, then the two 400s
RetryAccepts(d) ==
  /\ d.exists
  /\ d.status \in {"failed", "cancelled"}
  /\ d.retry < max_retries

\* POST /jobs/{id}/retry.  A refused call raises before it changes anything;
\* the counter is committed before the enqueue is tried.
retry_job(redis_ok) ==
  /\ RetryAccepts(db)
  /\ redis_ok => Len(tasks) < MaxTasks
  /\ db' = [db EXCEPT !.status = "queued", !.retry = @ + 1]
  /\ tasks' = IF redis_ok THEN Enqueue("ppj", TRUE) ELSE tasks
  /\ rejected' = FALSE
  /\ UNCHANGED << evt, rollbacks, cfg >>

\* the tests rollback_operation makes on the loaded row before it touches a device
RollbackAllowed(confirm, d) ==
  /\ confirm
  /\ d.exists
  /\ d.sd["cml_deployment"].status = "completed"
  /\ d.sd["cml_deployment"].data = "full"
  /\ d.sd["rollback"].status # "completed"
  /\ d.sd["config_generation"].data = "full"

\* a rollback that marks the job Failed when no command could be applied
rollback_operation_fails_job(confirm, outcome) ==
  /\ rollbacks < MaxRollbacks
  /\ IF RollbackAllowed(confirm, db)
       THEN LET old == ObjOf(db)
                new == [old EXCEPT !.sd["rollback"] =
                          IF outcome = "no_server" THEN Rec("failed", "error")
                          ELSE Rec("completed", IF outcome = "all_ok" THEN "full" ELSE "empty"),
                        !.status = IF outcome = "no_server" THEN "failed" ELSE @]
            IN  /\ db' = Flush(db, old, new, FALSE)
                /\ rollbacks' = IF outcome = "no_server" THEN rollbacks ELSE rollbacks + 1
                /\ evt' = IF outcome = "no_server" THEN "operation.rollback.failed"
                          ELSE "operation.rollback.completed"
       ELSE UNCHANGED << db, rollbacks, evt >>
  /\ UNCHANGED << tasks, rejected, cfg >>

\* POST /operations/{id}/rollback.  outcome: "no_server" (no active CML server:
\* nothing applied), "all_ok", "some_failed" (apply_config raised on a device).
\* The rollback record is put into stages_data in place, without flag_modified.
rollback_operation(confirm, outcome) ==
  /\ rollbacks < MaxRollbacks
  /\ IF RollbackAllowed(confirm, db)
       THEN LET old == ObjOf(db)
                new == [old EXCEPT !.sd["rollback"] =
                          IF outcome = "no_server" THEN Rec("failed", "error")
                          ELSE Rec("completed", IF outcome = "all_ok" THEN "full" ELSE "empty")]
            IN  /\ db' = Flush(db, old, new, FALSE)
                /\ rollbacks' = IF outcome = "no_server" THEN rollbacks ELSE rollbacks + 1
                /\ evt' = IF outcome = "no_server" THEN "operation.rollback.failed"
                          ELSE "operation.rollback.completed"
       ELSE UNCHANGED << db, rollbacks, evt >>
  /\ UNCHANGED << tasks, rejected, cfg >>

\* ------------------------------------------------------------------ system
\* one step of the run the worker executes for task k
Run(k) ==
  \/ Load(k)
  \/ McpUnavailable(k)
  \/ SetRunning(k)
  \/ StageBegin(k)
  \/ \E result \in {"full", "empty", "flagged", "raise"} : StageEnd(k, result)
  \/ GatePause(k)
  \/ DemoPause(k)
  \/ DemoResume(k)
  \/ Finish(k)

Worker == \E k \in 1..Len(tasks) : Run(k)

Api ==
  \/ \E demo_mode \in BOOLEAN, redis_ok \in BOOLEAN : start_operation(demo_mode, redis_ok)
  \/ \E approved \in BOOLEAN, redis_ok \in BOOLEAN : approve_operation(approved, redis_ok)
  \/ cancel_operation
  \/ advance_operation
  \/ retry_job(TRUE)
  \/ \E confirm \in BOOLEAN, outcome \in {"no_server", "all_ok", "some_failed"} :
       rollback_operation(confirm, outcome)

Next == Worker \/ Api

Spec == Init /\ [][Next]_vars


\* ------------------------------------------------------------------ claims
TaskIds == 1..Len(tasks)


\* step of task k that marks stage s running
MarksRunning(k, s) ==
  /\ k \in TaskIds
  /\ tasks[k].pc = "top"
  /\ tasks'[k].pc = "handler"
  /\ CurStage(tasks'[k]) = s

\* a step of the worker (every task step changes tasks and enqueues nothing)
WorkerStep == tasks' # tasks /\ Len(tasks') = Len(tasks)

\* continue_pipeline_after_approval is enqueued by approve_operation with
\* approved = true and by nothing else: a task of that function in the queue
\* (finished or not) tells that such a call was accepted before
ApprovedBefore == \E k \in TaskIds : tasks[k].fn = "cont"

\* step of task k that leaves the gate after human_decision
LeavesGate(k) == k \in TaskIds /\ tasks[k].pc = "gate" /\ tasks'[k].pc # "gate"

\* C1: human-approval gate.  When process_pipeline_job has completed
\* human_decision the job's status becomes Paused and the run stops; and no
\* stage after human_decision is marked running unless an approve call with
\* approved = true has been accepted before.
C1_ApprovalGate ==
  [][ /\ \A k \in TaskIds :
           LeavesGate(k) => tasks'[k].pc = "done" /\ db'.status = "paused"
      /\ \A k \in TaskIds : \A s \in PostNames :
           MarksRunning(k, s) => ApprovedBefore ]_vars

\* the part of C1 that holds: the run always stops at the gate, and a stage
\* after human_decision is marked running only after an accepted approval
ApprovalBeforePostStages ==
  [][ /\ \A k \in TaskIds : LeavesGate(k) => tasks'[k].pc = "done"
      /\ \A k \in TaskIds : \A s \in PostNames :
           MarksRunning(k, s) => ApprovedBefore ]_vars

\* a continuation deploys after an approval, human_decision being completed
C1_Witness ==
  /\ ApprovedBefore
  /\ db.sd["human_decision"].status = "completed"
  /\ \A k \in TaskIds : tasks[k].fn = "ppj" => tasks[k].pc = "done"
  /\ \E k \in TaskIds :
       /\ tasks[k].fn = "cont"
       /\ tasks[k].pc = "handler"
       /\ CurStage(tasks[k]) = "cml_deployment"

\* step of task k that applies the configuration to the devices
Deploys(k) ==
  /\ k \in TaskIds
  /\ tasks[k].pc = "handler"
  /\ CurStage(tasks[k]) = "cml_deployment"
  /\ tasks'[k].pc # "handler"
  /\ db'.sd["cml_deployment"] = Rec("completed", "full")

\* C2: rejection never deploys.  Once approve_operation has been accepted with
\* approved = false (and no later approval or retry was accepted), no task
\* already enqueued for the job applies configuration to a device.
C2_RejectionNeverDeploys ==
  [][ rejected => \A k \in TaskIds : ~Deploys(k) ]_vars

\* C3: cancellation stops the job.  After cancel_operation has set Cancelled
\* no task step marks a further stage running or overwrites Cancelled.
C3_CancelStops ==
  [][ (db.status = "cancelled" /\ WorkerStep) =>
        /\ db'.status = "cancelled"
        /\ \A k \in TaskIds : \A s \in StageNames : ~MarksRunning(k, s) ]_vars

\* C4: a deployment result with deployed == false is a stage failure: the
\* cml_deployment record is never completed with deployed false, and no later
\* stage runs after such a result.
C4_DeployedFalseFails ==
  db.sd["cml_deployment"] # Rec("completed", "empty")



\* step of task k in which the handler of stage s has raised
\* (the run ends inside the loop, with the stage's handler in flight)
StageRaises(k, s) ==
  /\ k \in TaskIds
  /\ tasks[k].pc = "handler"
  /\ CurStage(tasks[k]) = s
  /\ tasks'[k].pc = "done"

\* C5: stage failure by exception.  When a handler raises, the stage record
\* becomes failed with the error text, the job's status becomes Failed, an
\* operation.error event is emitted, and the run returns without marking a
\* later stage running.
C5_StageFailure ==
  [][ \A k \in TaskIds : \A s \in StageNames :
        StageRaises(k, s) =>
          /\ db'.sd[s] = Rec("failed", "error")
          /\ db'.status = "failed"
          /\ evt' = "operation.error"
          /\ \A r \in StageNames \ {s} : db'.sd[r] = tasks[k].obj.sd[r] ]_vars

\* C6: strict stage order.  A stage is marked running only when every earlier
\* stage of the fixed sequence has a completed record.
C6_StrictOrder ==
  [][ \A k \in TaskIds : \A s \in StageNames :
        MarksRunning(k, s) =>
          \A n \in 1..(IndexOf(s) - 1) : db'.sd[Stages[n]].status = "completed" ]_vars

\* C7: terminal states are immutable.  A status Completed, Failed or Cancelled
\* changes only by an accepted retry_job, from Failed or Cancelled to Queued.
C7_TerminalImmutable ==
  [][ db.status \in Terminal =>
        \/ db'.status = db.status
        \/ /\ db.status \in {"failed", "cancelled"}
           /\ db'.status = "queued"
           /\ db'.retry = db.retry + 1 ]_vars

\* C8: rollback runs at most once per job.
C8_RollbackOnce == rollbacks <= 1

\* C9: rollback gate.  Commands are applied only when the deployment record is
\* completed with deployed true, the stored rollback list is non-empty and no
\* rollback has been executed before.
C9_RollbackGate ==
  [][ rollbacks' # rollbacks =>
        /\ db.sd["cml_deployment"] = Rec("completed", "full")
        /\ db.sd["config_generation"].data = "full"
        /\ rollbacks = 0 ]_vars

\* a run with the handler of a stage in flight
Executing(t) == t.pc = "handler"

\* C10: single writer per job.  At most one run executes stages of the job,
\* at most one stage record is running, and it is the job's current_stage.
C10_SingleWriter ==
  /\ Cardinality({ k \in TaskIds : Executing(tasks[k]) }) <= 1
  /\ \A s \in StageNames : db.sd[s].status = "running" => db.stage = s


\* ------------------------------------------- a job that waits at the gate
\* the row after process_pipeline_job has returned at the gate: the first
\* five stages completed, status Paused (the finished run is left out of the
\* queue: a finished task takes no step)
AtGate ==
  [exists |-> TRUE, status |-> "paused", stage |-> "human_decision",
   sd |-> [s \in StageKeys |->
             IF s \in StageNames /\ IndexOf(s) <= IndexOf("human_decision")
               THEN Rec("completed", "full") ELSE Rec("pending", "none")],
   retry |-> 0]

InitGate ==
  /\ db = AtGate
  /\ tasks = << >>
  /\ evt = "operation.awaiting_approval"
  /\ rejected = FALSE
  /\ rollbacks = 0
  /\ cfg = NoBuild

\* every handler either returns its full result or raises
PlainResults == \A s \in StageKeys : db.sd[s].data \in {"none", "full", "error"}

\* one step of run k whose handler, if one returns, returns a full result
GateRun(k) == k \in TaskIds /\ Run(k) /\ PlainResults'

\* the operator advances at most once and approves once; the worker runs
\* what is enqueued
NextGate ==
  \/ \E k \in 1..MaxTasks : GateRun(k)
  \/ tasks = << >> /\ advance_operation
  \/ ~ApprovedBefore /\ approve_operation(TRUE, TRUE)

\* arq runs every task as a coroutine of its own: a run that can take a step
\* takes it (every handler terminates)
FairRuns == \A k \in 1..MaxTasks : WF_vars(GateRun(k))

SpecGate == InitGate /\ [][NextGate]_vars /\ FairRuns

\* approve_operation(approved = true) has just been accepted for the job
\* paused at the gate: the continuation is enqueued, no run is in flight
ApprovedAtGate ==
  /\ db.status = "running"
  /\ db.stage = "human_decision"
  /\ \E k \in TaskIds : tasks[k].fn = "cont" /\ tasks[k].pc = "queued"
  /\ \A k \in TaskIds : tasks[k].pc \in {"queued", "done"}

\* C11: approval resumes and finishes.  After an approval of a job paused at
\* human_decision the job eventually reaches Completed, Failed or Cancelled
\* (every handler terminates, every run is scheduled fairly).
C11_ApprovalFinishes == ApprovedAtGate ~> (db.status \in Terminal)

\* ------------------------------------------------- a job that is retried
\* the row start_operation leaves when the enqueue failed: status Failed,
\* nothing run, retry_count 0
InitRetry ==
  /\ db = [exists |-> TRUE, status |-> "failed", stage |-> "voice_input",
           sd |-> PendingStages, retry |-> 0]
  /\ tasks = << >>
  /\ evt = "none"
  /\ rejected = FALSE
  /\ rollbacks = 0
  /\ cfg = NoBuild

\* the operator retries (the enqueue works or not) and cancels; the worker
\* runs what is enqueued
NextRetry ==
  \/ \E k \in 1..MaxTasks : GateRun(k)
  \/ \E redis_ok \in BOOLEAN : retry_job(redis_ok)
  \/ cancel_operation

SpecRetry == InitRetry /\ [][NextRetry]_vars

\* C12: retry bound.  retry_count never exceeds max_retries; a step that
\* changes retry_count starts from status Failed or Cancelled with
\* retry_count < max_retries, ends with status Queued and adds exactly one;
\* with retry_count >= max_retries no step changes retry_count (a refused
\* retry leaves the job as it is).
C12_RetryBound ==
  /\ [](db.retry <= max_retries)
  /\ [][ db'.retry # db.retry =>
           /\ db.status \in {"failed", "cancelled"}
           /\ db.retry < max_retries
           /\ db'.retry = db.retry + 1
           /\ db'.status = "queued" ]_vars

\* the job has used all its retries and is Failed or Cancelled again: a retry
\* is refused here
C12_Witness ==
  /\ db.retry = max_retries
  /\ db.status \in {"failed", "cancelled"}
  /\ ~ENABLED (\E redis_ok \in BOOLEAN : retry_job(redis_ok))

\* ---------------------------------------------------------- demo/step mode
\* advance_operation enqueues process_pipeline_job: when an advance call has
\* been accepted after run k was enqueued, a task of that function stands
\* behind k in the queue
AdvancedSince(k) == \E j \in TaskIds : j > k /\ tasks[j].fn = "ppj"

\* C13: demo mode waits for the operator.  A run with demo_mode marks the
\* stage after a completed non-gate stage running only when an advance call
\* has been made since the run began.
C13_DemoWaits ==
  [][ \A k \in TaskIds : \A s \in StageNames :
        (MarksRunning(k, s) /\ tasks[k].demo /\ tasks[k].i > 1)
          => AdvancedSince(k) ]_vars

\* C14: advance by one stage.  The run that an accepted advance_operation
\* enqueues marks running no stage whose record is already completed and no
\* stage before the job's current_stage (under SpecGate every
\* process_pipeline_job run is enqueued by advance_operation).
C14_AdvanceByOne ==
  [][ \A k \in TaskIds : \A s \in StageNames :
        (MarksRunning(k, s) /\ tasks[k].fn = "ppj")
          => /\ db.sd[s].status # "completed"
             /\ IndexOf(s) >= IndexOf(db.stage) ]_vars

\* ------------------------------------------- one run, with and without demo
\* a single run of either task function, demo_mode on or off, and nobody
\* else: process_pipeline_job on a freshly queued job, or
\* continue_pipeline_after_approval on a job just approved at the gate
InitDemo ==
  /\ \E demo_mode \in BOOLEAN :
        \/ /\ db = [NoJob EXCEPT !.exists = TRUE, !.status = "queued"]
           /\ tasks = << Task("ppj", demo_mode) >>
        \/ /\ db = [AtGate EXCEPT !.status = "running"]
           /\ tasks = << Task("cont", demo_mode) >>
  /\ evt = "none"
  /\ rejected = FALSE
  /\ rollbacks = 0
  /\ cfg = NoBuild

NextDemo == Run(1)

SpecDemo == InitDemo /\ [][NextDemo]_vars

\* the stage records after the run has marked n of its stages running:
\* the first n - 1 completed, the n-th running, completed or failed, the
\* others pending, current_stage the n-th
Serial(fn, n) ==
  LET L == StageList(fn)
  IN  /\ \A m \in 1..Len(L) :
            /\ m < n => db.sd[L[m]].status = "completed"
            /\ m = n => db.sd[L[m]].status \in {"running", "completed", "failed"}
            /\ m > n => db.sd[L[m]] = Rec("pending", "none")
      /\ n >= 1 => db.stage = L[n]

\* the status a finished run leaves, read off the stage records alone
FinalStatus(fn) ==
  IF fn = "ppj"
    THEN (IF db.sd["human_decision"].status = "completed" THEN "paused" ELSE "failed")
    ELSE (IF db.sd["notifications"].status = "completed" THEN "completed" ELSE "failed")

\* a step changes at most one stage record: pending to running, or running
\* to completed or failed
OneTransition ==
  \A s \in StageNames : db'.sd[s] # db.sd[s] =>
    /\ \A r \in StageKeys \ {s} : db'.sd[r] = db.sd[r]
    /\ \/ db.sd[s].status = "pending" /\ db'.sd[s].status = "running"
       \/ db.sd[s].status = "running" /\ db'.sd[s].status \in {"completed", "failed"}

\* C15: demo mode is orthogonal.  Whatever demo_mode is, the stage records
\* of a run go through the same transitions (running, then completed or
\* failed, stage by stage in the fixed order, decided by the handler
\* outcomes alone) and the finished run leaves the status the records
\* determine; demo mode only adds Paused/Running status changes: Paused
\* during a run occurs only with demo_mode, between two stages.
C15_DemoOrthogonal ==
  /\ [](\E n \in 0..Len(StageList(tasks[1].fn)) : Serial(tasks[1].fn, n))
  /\ [](tasks[1].pc = "done" => db.status = FinalStatus(tasks[1].fn))
  /\ [](db.status = "paused" /\ tasks[1].pc # "done"
          => tasks[1].demo /\ tasks[1].pc = "sleep")
  /\ [][OneTransition]_vars

\* a run with demo_mode has gone through all its pauses and completed the job
C15_Witness ==
  /\ tasks[1].demo
  /\ tasks[1].fn = "cont"
  /\ tasks[1].pc = "done"
  /\ db.status = "completed"

\* C16: per-device rollback outcome.  A rollback call that has applied the
\* commands to the deployed devices leaves the rollback record, with its
\* entry per attempted device and the overall success, in the job's row.
C16_RollbackRecorded ==
  [][ rollbacks' # rollbacks =>
        /\ db'.sd["rollback"].status = "completed"
        /\ db'.sd["rollback"].data \in {"full", "empty"} ]_vars

\* ------------------------------------------- services/config_builder.py
\* Optional[...] = None of the dataclasses
None == -1

MaxIfaces == 2
MaxStmts == 2
MaxArea == 1
MaxPid == 2
AddrBits == 2

\* interfaces are named by their position, OSPF areas and process ids are
\* numbers, an address is the integer _ip_to_int gives for it
IfNames == 1..MaxIfaces
Areas == 0..MaxArea
Pids == 1..MaxPid
Addr == 0..(2^AddrBits - 1)

RECURSIVE BitAnd(_, _, _)
BitAnd(a, b, n) ==
  IF n = 0 THEN 0
  ELSE (a % 2) * (b % 2) + 2 * BitAnd(a \div 2, b \div 2, n - 1)

\* ~wild_int, within the width of an address
BitNot(a) == (2^AddrBits - 1) - a

\* 0 bits of the wildcard must match, 1 bits are don't-care
_ip_in_network(ip, network, wildcard) ==
  BitAnd(ip, BitNot(wildcard), AddrBits) = BitAnd(network, BitNot(wildcard), AddrBits)

\* a command line, by the f-string that builds it
Line(op, x, y, z) == [op |-> op, x |-> x, y |-> y, z |-> z]
RouterOspf(pid) == Line("router ospf", pid, None, None)
NoNetwork(network, wildcard, area) == Line(" no network", network, wildcard, area)
Network(network, wildcard, area) == Line(" network", network, wildcard, area)
Interface(name) == Line("interface", name, None, None)
IpOspf(pid, area) == Line(" ip ospf", pid, area, None)

ConfigChangeResult ==
  [commands |-> << >>, rollback_commands |-> << >>, warnings |-> << >>,
   affected_interfaces |-> << >>, ospf_process_id |-> None]

NoProcess == [process_id |-> None, network_statements |-> << >>]

\* parsed.ospf_processes.get(pid)
GetProcess(parsed, pid) ==
  LET procs == parsed.ospf_processes
      hits == { n \in 1..Len(procs) : procs[n].process_id = pid }
  IN  IF hits = {} THEN NoProcess ELSE procs[CHOOSE n \in hits : TRUE]

\* the least element of a non-empty set of positions
First(S) == CHOOSE n \in S : \A m \in S : n <= m

\* which OSPF process to modify: the process id
SelectPid(parsed, ospf_process_id) ==
  IF ospf_process_id # None THEN ospf_process_id
  ELSE IF Len(parsed.ospf_processes) > 0 THEN parsed.ospf_processes[1].process_id
  ELSE LET hits == { n \in 1..Len(parsed.interfaces) :
                       parsed.interfaces[n].ospf_process_id # None }
       IN  IF hits = {} THEN None ELSE parsed.interfaces[First(hits)].ospf_process_id

\* which OSPF process to modify: the process object, or None
SelectOspf(parsed, ospf_process_id) ==
  IF ospf_process_id # None THEN GetProcess(parsed, ospf_process_id)
  ELSE IF Len(parsed.ospf_processes) > 0 THEN parsed.ospf_processes[1]
  ELSE NoProcess

\* the skip that never happens
AlreadyInAreaNever(area, new_area) == FALSE

\* the statement or interface is in the target area already
AlreadyInArea(area, new_area) == area = new_area

\* does the statement map to one of the target interfaces
MatchesTarget(parsed, stmt, target_interfaces) ==
  \E name \in target_interfaces :
    /\ name \in 1..Len(parsed.interfaces)
    /\ parsed.interfaces[name].ip_address # None
    /\ _ip_in_network(parsed.interfaces[name].ip_address, stmt.network, stmt.wildcard)

\* the interfaces a network statement covers, in the order of the config
AffectedBy(parsed, stmt) ==
  LET Covered(n) ==
        /\ parsed.interfaces[n].ip_address # None
        /\ _ip_in_network(parsed.interfaces[n].ip_address, stmt.network, stmt.wildcard)
      names == SelectSeq([n \in 1..Len(parsed.interfaces) |-> n], Covered)
  IN  [k \in 1..Len(names) |-> [name |-> names[k], current_area |-> stmt.area]]

\* the loop over ospf.network_statements
RECURSIVE NetworkStatements(_, _, _, _, _)
NetworkStatements(parsed, stmts, new_area, target_interfaces, result) ==
  IF stmts = << >> THEN result
  ELSE LET stmt == Head(stmts)
           next ==
             IF target_interfaces # {} /\ ~MatchesTarget(parsed, stmt, target_interfaces)
               THEN result
             ELSE IF AlreadyInArea(stmt.area, new_area)
               THEN [result EXCEPT !.warnings = Append(@, "already in area")]
             ELSE [result EXCEPT
                     !.affected_interfaces = @ \o AffectedBy(parsed, stmt),
                     !.commands = @ \o
                       << NoNetwork(stmt.network, stmt.wildcard, stmt.area),
                          Network(stmt.network, stmt.wildcard, new_area) >>,
                     !.rollback_commands = @ \o
                       << NoNetwork(stmt.network, stmt.wildcard, new_area),
                          Network(stmt.network, stmt.wildcard, stmt.area) >>]
       IN  NetworkStatements(parsed, Tail(stmts), new_area, target_interfaces, next)

\* (commands, rollback_commands) for the affected interfaces
_generate_interface_ospf_commands(interfaces, ospf_process_id, new_area) ==
  [commands |->
     [k \in 1..(2 * Len(interfaces)) |->
        IF k % 2 = 1 THEN Interface(interfaces[(k + 1) \div 2].name)
        ELSE IpOspf(ospf_process_id, new_area)],
   rollback |->
     [k \in 1..(2 * Len(interfaces)) |->
        IF k % 2 = 1 THEN Interface(interfaces[(k + 1) \div 2].name)
        ELSE IpOspf(ospf_process_id, interfaces[k \div 2].current_area)]]

\* interface_only: one "no network" line for every statement of the process
RemoveStatements(stmts) ==
  [k \in 1..Len(stmts) |-> NoNetwork(stmts[k].network, stmts[k].wildcard, stmts[k].area)]

\* the per-interface path, over parsed.interfaces from position n on
RECURSIVE PerInterface(_, _, _, _, _, _)
PerInterface(parsed, n, new_area, ospf_process_id, target_interfaces, result) ==
  IF n > Len(parsed.interfaces) THEN result
  ELSE LET iface == parsed.interfaces[n]
           next ==
             IF iface.ospf_process_id = None \/ iface.ospf_area = None THEN result
             ELSE IF iface.ospf_process_id # ospf_process_id THEN result
             ELSE IF target_interfaces # {} /\ iface.name \notin target_interfaces THEN result
             ELSE IF AlreadyInArea(iface.ospf_area, new_area)
               THEN [result EXCEPT !.warnings = Append(@, "already in area")]
             ELSE [result EXCEPT
                     !.affected_interfaces =
                       Append(@, [name |-> iface.name, current_area |-> iface.ospf_area]),
                     !.commands = @ \o
                       << Interface(iface.name), IpOspf(iface.ospf_process_id, new_area) >>,
                     !.rollback_commands = @ \o
                       << Interface(iface.name),
                          IpOspf(iface.ospf_process_id, iface.ospf_area) >>]
       IN  PerInterface(parsed, n + 1, new_area, ospf_process_id, target_interfaces, next)

build_ospf_area_change(parsed, new_area, ospf_process_id, target_interfaces, config_strategy) ==
  LET pid == SelectPid(parsed, ospf_process_id)
      ospf == SelectOspf(parsed, ospf_process_id)
      header == RouterOspf(pid)
      uses_network_statements ==
        ospf # NoProcess /\ Len(ospf.network_statements) > 0
      uses_interface_level ==
        \E n \in 1..Len(parsed.interfaces) : parsed.interfaces[n].ospf_process_id # None
      generate_network_commands ==
        config_strategy \in {"dual", "network_only"} /\ uses_network_statements
      generate_interface_commands == config_strategy \in {"dual", "interface_only"}
      r0 == [ConfigChangeResult EXCEPT !.ospf_process_id = pid]
      r1 == IF generate_network_commands
              THEN NetworkStatements(parsed, ospf.network_statements, new_area,
                     target_interfaces,
                     [r0 EXCEPT !.commands = << header >>,
                                !.rollback_commands = << header >>])
              ELSE r0
      ic == _generate_interface_ospf_commands(r1.affected_interfaces, pid, new_area)
      r2 == IF generate_interface_commands /\ r1.affected_interfaces # << >>
              THEN [r1 EXCEPT !.commands = @ \o ic.commands,
                              !.rollback_commands = @ \o ic.rollback]
              ELSE r1
      r3 == IF config_strategy = "interface_only" /\ uses_network_statements
              THEN [r2 EXCEPT !.commands =
                      << header >> \o @ \o RemoveStatements(ospf.network_statements)]
              ELSE r2
      r4 == IF ~generate_interface_commands /\ uses_interface_level
              THEN PerInterface(parsed, 1, new_area, pid, target_interfaces, r3)
              ELSE r3
      r5 == IF r4.commands = << >>
              THEN [r4 EXCEPT !.warnings = Append(@, "nothing to modify")]
              ELSE r4
  IN  IF pid = None
        THEN [ConfigChangeResult EXCEPT !.warnings = << "no OSPF process" >>]
      ELSE IF r5.commands = << header >>
        THEN [r5 EXCEPT !.commands = << >>, !.rollback_commands = << >>,
                        !.warnings = Append(@, "no changes needed")]
      ELSE r5

\* ------------------------------------------------ the device (IOS) side
\* What a device does with a block of configuration lines, as far as OSPF
\* goes; the builder has no code for it.  ctx is the configuration mode the
\* lines are entered in.
SetStatement(stmts, network, wildcard, area) ==
  IF \E k \in 1..Len(stmts) : stmts[k].network = network /\ stmts[k].wildcard = wildcard
    THEN [k \in 1..Len(stmts) |->
            IF stmts[k].network = network /\ stmts[k].wildcard = wildcard
              THEN [stmts[k] EXCEPT !.area = area] ELSE stmts[k]]
    ELSE Append(stmts, [network |-> network, wildcard |-> wildcard, area |-> area])

DropStatement(stmts, network, wildcard, area) ==
  LET Keep(st) == ~(st.network = network /\ st.wildcard = wildcard /\ st.area = area)
  IN  SelectSeq(stmts, Keep)

ApplyLine(parsed, c, ctx) ==
  LET procs == parsed.ospf_processes
  IN  CASE c.op = "router ospf" ->
             IF \E n \in 1..Len(procs) : procs[n].process_id = c.x THEN parsed
             ELSE [parsed EXCEPT !.ospf_processes =
                     Append(@, [process_id |-> c.x, network_statements |-> << >>])]
        [] c.op = " network" /\ ctx.mode = "router" ->
             [parsed EXCEPT !.ospf_processes =
                [n \in 1..Len(procs) |->
                   IF procs[n].process_id = ctx.id
                     THEN [procs[n] EXCEPT !.network_statements =
                             SetStatement(@, c.x, c.y, c.z)]
                     ELSE procs[n]]]
        [] c.op = " no network" /\ ctx.mode = "router" ->
             [parsed EXCEPT !.ospf_processes =
                [n \in 1..Len(procs) |->
                   IF procs[n].process_id = ctx.id
                     THEN [procs[n] EXCEPT !.network_statements =
                             DropStatement(@, c.x, c.y, c.z)]
                     ELSE procs[n]]]
        [] c.op = " ip ospf" /\ ctx.mode = "interface" ->
             [parsed EXCEPT !.interfaces[ctx.id].ospf_process_id = c.x,
                            !.interfaces[ctx.id].ospf_area = c.y]
        [] OTHER -> parsed

ModeAfter(c, ctx) ==
  CASE c.op = "router ospf" -> [mode |-> "router", id |-> c.x]
    [] c.op = "interface" -> [mode |-> "interface", id |-> c.x]
    [] OTHER -> ctx

RECURSIVE ApplyLines(_, _, _)
ApplyLines(parsed, lines, ctx) ==
  IF lines = << >> THEN parsed
  ELSE ApplyLines(ApplyLine(parsed, Head(lines), ctx), Tail(lines),
                  ModeAfter(Head(lines), ctx))

\* the config after the lines were entered in global configuration mode
Apply(parsed, lines) == ApplyLines(parsed, lines, [mode |-> "global", id |-> None])

\* interface_name -> area for all OSPF-participating interfaces, as a set of
\* pairs: interface-level OSPF first, then the first covering statement
get_ospf_interfaces(parsed, process_id) ==
  LET ifs == parsed.interfaces
      level == { n \in 1..Len(ifs) :
                   /\ ifs[n].ospf_process_id # None /\ ifs[n].ospf_area # None
                   /\ (process_id = None \/ ifs[n].ospf_process_id = process_id) }
      procs == parsed.ospf_processes
      cover(n) == { << p, k >> \in (1..Len(procs)) \X (1..MaxStmts) :
                      /\ process_id = None \/ procs[p].process_id = process_id
                      /\ k <= Len(procs[p].network_statements)
                      /\ ifs[n].ip_address # None
                      /\ _ip_in_network(ifs[n].ip_address,
                                        procs[p].network_statements[k].network,
                                        procs[p].network_statements[k].wildcard) }
      first(n) == CHOOSE c \in cover(n) : \A d \in cover(n) :
                    c[1] < d[1] \/ (c[1] = d[1] /\ c[2] <= d[2])
  IN  { << n, ifs[n].ospf_area >> : n \in level }
      \cup { << n, procs[first(n)[1]].network_statements[first(n)[2]].area >> :
               n \in { m \in 1..Len(ifs) : m \notin level /\ cover(m) # {} } }

\* the areas an interface is in: the area of its interface-level OSPF, else
\* the areas of the network statements that cover its address
InterfaceAreas(parsed, n) ==
  LET iface == parsed.interfaces[n]
      procs == parsed.ospf_processes
  IN  IF iface.ospf_process_id # None THEN { iface.ospf_area }
      ELSE UNION { { procs[p].network_statements[k].area :
                       k \in { j \in 1..Len(procs[p].network_statements) :
                                 /\ iface.ip_address # None
                                 /\ _ip_in_network(iface.ip_address,
                                      procs[p].network_statements[j].network,
                                      procs[p].network_statements[j].wildcard) } } :
                   p \in 1..Len(procs) }

\* the OSPF state of a config: the network statements with their areas and
\* the areas of every interface
OspfState(parsed) ==
  [statements |->
     UNION { { << parsed.ospf_processes[n].process_id,
                  parsed.ospf_processes[n].network_statements[k] >> :
                 k \in 1..Len(parsed.ospf_processes[n].network_statements) } :
             n \in 1..Len(parsed.ospf_processes) },
   areas |-> [n \in 1..Len(parsed.interfaces) |-> InterfaceAreas(parsed, n)]]

\* ------------------------------------------- the builder, input by input
Strategies == {"dual", "network_only", "interface_only"}

\* interface n has the address n or none, and interface-level OSPF or none
InterfaceChoices(n) ==
  { [name |-> n, ip_address |-> ip, ospf_process_id |-> o[1], ospf_area |-> o[2]] :
      ip \in {None, n}, o \in {<< None, None >>} \cup (Pids \X Areas) }

InterfaceLists ==
  { f \in [IfNames -> UNION { InterfaceChoices(n) : n \in IfNames }] :
      \A n \in IfNames : f[n] \in InterfaceChoices(n) }

\* host statements for the interface addresses, and the statements with a
\* one-bit or an all-ones wildcard
StatementKeys ==
  { << n, 0 >> : n \in IfNames }
  \cup { k \in Addr \X {1, 2^AddrBits - 1} : BitAnd(k[1], k[2], AddrBits) = 0 }

Statements ==
  { [network |-> k[1], wildcard |-> k[2], area |-> a] : k \in StatementKeys, a \in Areas }

\* a device takes one area per network and wildcard
StatementLists ==
  { sl \in UNION { [1..m -> Statements] : m \in 0..MaxStmts } :
      \A i, j \in 1..Len(sl) :
        i # j => << sl[i].network, sl[i].wildcard >> # << sl[j].network, sl[j].wildcard >> }

ProcessLists ==
  { << >> } \cup
  { << [process_id |-> 1, network_statements |-> sl] >> : sl \in StatementLists }

Building(parsed, new_area, ospf_process_id, target_interfaces, config_strategy) ==
  [phase |-> "input", parsed |-> parsed, new_area |-> new_area,
   ospf_process_id |-> ospf_process_id, target_interfaces |-> target_interfaces,
   config_strategy |-> config_strategy,
   result |-> ConfigChangeResult, after |-> parsed,
   again |-> ConfigChangeResult, restored |-> parsed]

InitOspf ==
  /\ db = NoJob
  /\ tasks = << >>
  /\ evt = "none"
  /\ rejected = FALSE
  /\ rollbacks = 0
  /\ \E ifs \in InterfaceLists, procs \in ProcessLists, new_area \in Areas,
        ospf_process_id \in {None} \cup Pids, target_interfaces \in {{}, {1}},
        config_strategy \in Strategies :
       cfg = Building([interfaces |-> ifs, ospf_processes |-> procs], new_area,
                      ospf_process_id, target_interfaces, config_strategy)

Build(parsed) ==
  build_ospf_area_change(parsed, cfg.new_area, cfg.ospf_process_id,
                         cfg.target_interfaces, cfg.config_strategy)

\* process_config_generation calls the builder on the parsed running config
BuildChange ==
  /\ cfg.phase = "input"
  /\ cfg' = [cfg EXCEPT !.phase = "built", !.result = Build(cfg.parsed)]
  /\ UNCHANGED << db, tasks, evt, rejected, rollbacks >>

\* the commands are applied to the device, the builder is called again with
\* the same arguments on the new running config
ApplyAndBuildAgain ==
  /\ cfg.phase = "built"
  /\ LET after == Apply(cfg.parsed, cfg.result.commands)
     IN  cfg' = [cfg EXCEPT !.phase = "rebuilt", !.after = after, !.again = Build(after)]
  /\ UNCHANGED << db, tasks, evt, rejected, rollbacks >>

\* the commands are applied to the device, then the rollback commands
ApplyAndRollback ==
  /\ cfg.phase = "built"
  /\ LET after == Apply(cfg.parsed, cfg.result.commands)
     IN  cfg' = [cfg EXCEPT !.phase = "rolled", !.after = after,
                            !.restored = Apply(after, cfg.result.rollback_commands)]
  /\ UNCHANGED << db, tasks, evt, rejected, rollbacks >>

NextOspf == BuildChange \/ ApplyAndBuildAgain \/ ApplyAndRollback

SpecOspf == InitOspf /\ [][NextOspf]_vars

\* the positions of the lines of a list with the given op
LinesOf(lines, op) == { p \in 1..Len(lines) : lines[p].op = op }

\* every pair "no network N W area X" / "network N W area Y" of the commands
\* has the pair "no network N W area Y" / "network N W area X" in the rollback
ReversePairs(r) ==
  \A p \in LinesOf(r.commands, " no network") :
    (/\ p < Len(r.commands)
     /\ r.commands[p + 1].op = " network"
     /\ r.commands[p + 1].x = r.commands[p].x
     /\ r.commands[p + 1].y = r.commands[p].y)
    => \E q \in 1..(Len(r.rollback_commands) - 1) :
         /\ r.rollback_commands[q] =
              NoNetwork(r.commands[p].x, r.commands[p].y, r.commands[p + 1].z)
         /\ r.rollback_commands[q + 1] =
              Network(r.commands[p].x, r.commands[p].y, r.commands[p].z)

\* C17: OSPF rollback round trip.  Applying the commands and then the
\* rollback commands restores the network statements with their areas and
\* every interface's OSPF area, and every no network / network pair of the
\* commands has its reverse pair in the rollback commands.
C17_RollbackRoundTrip ==
  cfg.phase = "rolled" =>
    /\ OspfState(cfg.restored) = OspfState(cfg.parsed)
    /\ ReversePairs(cfg.result)

\* C18: idempotent on the second call.  When the commands have been applied
\* and the builder is called again with the same target area, it returns no
\* commands, no rollback commands and a warning.
C18_SecondCallEmpty ==
  cfg.phase = "rebuilt" =>
    /\ cfg.again.commands = << >>
    /\ cfg.again.rollback_commands = << >>
    /\ cfg.again.warnings # << >>

\* a dual-strategy change of statements and interfaces was applied and the
\* builder was called again
C18_Witness ==
  /\ cfg.phase = "rebuilt"
  /\ cfg.config_strategy = "dual"
  /\ LinesOf(cfg.result.commands, " network") # {}
  /\ LinesOf(cfg.result.commands, " ip ospf") # {}
  /\ cfg.after # cfg.parsed
  /\ cfg.again.commands = << >>

\* C19: the strategy selects the command families.  network_only: no
\* "ip ospf <pid> area" line; interface_only: "ip ospf <pid> area <new>" for
\* every OSPF interface not in the target area, and no "network ... area
\* <new>" line; dual, on a device with network statements to change: both.
C19_StrategyFamilies ==
  cfg.phase = "built" =>
    LET r == cfg.result
        pid == r.ospf_process_id
        HasIpOspf(n) ==
          \E p \in 1..(Len(r.commands) - 1) :
            /\ r.commands[p] = Interface(n)
            /\ r.commands[p + 1] = IpOspf(pid, cfg.new_area)
    IN  /\ cfg.config_strategy = "network_only" =>
             LinesOf(r.commands, " ip ospf") = {}
        /\ (cfg.config_strategy = "interface_only" /\ pid # None) =>
             /\ \A e \in get_ospf_interfaces(cfg.parsed, pid) :
                  e[2] # cfg.new_area => HasIpOspf(e[1])
             /\ LinesOf(r.commands, " network") = {}
        /\ (cfg.config_strategy = "dual" /\ LinesOf(r.commands, " network") # {}) =>
             \A k \in 1..Len(r.affected_interfaces) :
               HasIpOspf(r.affected_interfaces[k].name)

\* C20: no degenerate OSPF block.  In the commands and in the rollback
\* commands every "router ospf N" line is followed by a network-statement
\* line; without an OSPF process and without interface-level OSPF the result
\* has no commands and a warning.
C20_NoDegenerateBlock ==
  cfg.phase = "built" =>
    LET r == cfg.result
        Bodied(lines) ==
          \A p \in LinesOf(lines, "router ospf") :
            p < Len(lines) /\ lines[p + 1].op \in {" network", " no network"}
    IN  /\ Bodied(r.commands)
        /\ Bodied(r.rollback_commands)
        /\ (/\ cfg.parsed.ospf_processes = << >>
            /\ \A n \in 1..Len(cfg.parsed.interfaces) :
                 cfg.parsed.interfaces[n].ospf_process_id = None)
           => r.commands = << >> /\ r.warnings # << >>

\* ------------------------------------------------ build_security_acl input
MaxAclIfaces == 2
MaxRules == 2

\* an Optional[str] that is None
NoneStr == "None"

\* a command line: leading blank or not, and its words
Cmd(indent, words) == [indent |-> indent, words |-> words]

\* the interface names of a device with their type prefix
IfName(prefix, n) == prefix \o ToString(n)

NamePrefix ==
  [n \in { IfName("GigabitEthernet", k) : k \in 1..MaxAclIfaces } |-> "GigabitEthernet"]
  @@ [n \in { IfName("Loopback", k) : k \in 1..MaxAclIfaces } |-> "Loopback"]

startswith(name, prefix) == name \in DOMAIN NamePrefix /\ NamePrefix[name] = prefix

\* rule.get(key, default)
Get(rule, key, default) == IF key \in DOMAIN rule THEN rule[key] ELSE default

\* the line of one rule dict
RuleLine(rule) ==
  LET action == Get(rule, "action", "deny")
      protocol == Get(rule, "protocol", "tcp")
      source == Get(rule, "source", "any")
      destination == Get(rule, "destination", "any")
      extras == Get(rule, "extras", "")
  IN  Cmd(1, << action, protocol, source, destination >>
             \o (IF extras # "" THEN << extras >> ELSE << >>))

PermitAny == Cmd(1, << "permit", "ip", "any", "any" >>)

\* a body that is the lines of the rules and nothing else
AclBodyNoTail(rules) == [k \in 1..Len(rules) |-> RuleLine(rules[k])]

\* the lines of the rules, then the permit line
AclBody(rules) == [k \in 1..Len(rules) |-> RuleLine(rules[k])] \o << PermitAny >>

\* parsed.interfaces.get(name)
NoInterface ==
  [name |-> NoneStr, ip_address |-> NoneStr, shutdown |-> FALSE,
   acl_in |-> NoneStr, acl_out |-> NoneStr]

InterfaceGet(parsed, name) ==
  IF \E k \in 1..Len(parsed.interfaces) : parsed.interfaces[k].name = name
  THEN parsed.interfaces[CHOOSE k \in 1..Len(parsed.interfaces) :
                           parsed.interfaces[k].name = name]
  ELSE NoInterface

\* a selection that leaves out the test of the name
ActiveOfAnyType(iface) == ~iface.shutdown /\ iface.ip_address # NoneStr

\* the default targets: GigabitEthernet, not shutdown, with an address
ActiveGigabitEthernet(iface) ==
  /\ startswith(iface.name, "GigabitEthernet")
  /\ ~iface.shutdown
  /\ iface.ip_address # NoneStr

DefaultTargets(parsed) ==
  LET sel == SelectSeq(parsed.interfaces, ActiveGigabitEthernet)
  IN  [k \in 1..Len(sel) |-> sel[k].name]

\* an Optional[List[str]]
NoneList == [is_none |-> TRUE, items |-> << >>]
ListOf(items) == [is_none |-> FALSE, items |-> items]

AccessGroup(acl_name, direction) == Cmd(1, << "ip", "access-group", acl_name, direction >>)
NoAccessGroup(acl_name, direction) ==
  Cmd(1, << "no", "ip", "access-group", acl_name, direction >>)
InterfaceCmd(name) == Cmd(0, << "interface", name >>)

\* the loop over the target interfaces, from position k on
RECURSIVE BindTargets(_, _, _, _, _, _)
BindTargets(parsed, targets, k, acl_name, direction, result) ==
  IF k > Len(targets) THEN result
  ELSE
    LET iface == InterfaceGet(parsed, targets[k])
        existing_acl ==
          IF iface = NoInterface THEN NoneStr
          ELSE IF direction = "in" THEN iface.acl_in ELSE iface.acl_out
        restore ==
          IF existing_acl # NoneStr
          THEN << AccessGroup(existing_acl, direction) >> ELSE << >>
        warning ==
          IF existing_acl # NoneStr
          THEN << << "existing ACL replaced", targets[k], existing_acl, direction >> >>
          ELSE << >>
    IN  BindTargets(parsed, targets, k + 1, acl_name, direction,
          [result EXCEPT
             !.commands = @ \o << InterfaceCmd(targets[k]),
                                  AccessGroup(acl_name, direction) >>,
             !.rollback_commands = @ \o << InterfaceCmd(targets[k]),
                                           NoAccessGroup(acl_name, direction) >>
                                     \o restore,
             !.warnings = @ \o warning])

build_security_acl(parsed, acl_name, rules, target_interfaces, direction) ==
  LET r0 == [ConfigChangeResult EXCEPT
               !.commands = << Cmd(0, << "ip", "access-list", "extended", acl_name >>) >>,
               !.rollback_commands =
                 << Cmd(0, << "no", "ip", "access-list", "extended", acl_name >>) >>]
      r2 == [r0 EXCEPT !.commands = @ \o AclBody(rules)]
      targets == IF target_interfaces.is_none THEN DefaultTargets(parsed)
                 ELSE target_interfaces.items
      r3 == IF targets = << >>
            THEN [r2 EXCEPT !.warnings = @ \o << << "no active GigabitEthernet" >> >>]
            ELSE r2
  IN  BindTargets(parsed, targets, 1, acl_name, direction, r3)

\* the default rules of the registry wrapper
DefaultAclRules ==
  << [action |-> "deny", protocol |-> "tcp", source |-> "any",
      destination |-> "any eq 445", extras |-> "log"],
     [action |-> "deny", protocol |-> "udp", source |-> "any",
      destination |-> "any eq 445", extras |-> "log"] >>

_build_security(parsed, params) ==
  LET cve_id == Get(params, "cve_id", "SEC")
      acl_name == cve_id \o "-BLOCK"
      rules == Get(params, "acl_rules", DefaultAclRules)
  IN  build_security_acl(parsed, acl_name, rules, NoneList, "in")

\* ------------------------------------------- the device and the ACL lines
\* a device drops an ACL by name
DropAcl(access_lists, name) ==
  [n \in (DOMAIN access_lists) \ {name} |-> access_lists[n]]

\* a device enters a named ACL and creates it when it has none of that name
EnterAcl(access_lists, name) ==
  IF name \in DOMAIN access_lists THEN access_lists
  ELSE access_lists @@ [n \in {name} |-> << >>]

\* an entry is added at the end of the ACL; an entry it already has is ignored
AddEntry(access_lists, name, words) ==
  IF \E k \in 1..Len(access_lists[name]) : access_lists[name][k] = words
  THEN access_lists
  ELSE [access_lists EXCEPT ![name] = Append(@, words)]

\* the binding of an interface in one direction
SetBinding(interfaces, name, direction, acl) ==
  [k \in 1..Len(interfaces) |->
     IF interfaces[k].name # name THEN interfaces[k]
     ELSE IF direction = "in" THEN [interfaces[k] EXCEPT !.acl_in = acl]
     ELSE [interfaces[k] EXCEPT !.acl_out = acl]]

AclApplyLine(parsed, c, ctx) ==
  IF c.indent = 0
  THEN IF c.words[1] = "no"
       THEN [parsed EXCEPT !.access_lists = DropAcl(@, c.words[5])]
       ELSE IF c.words[1] = "ip"
       THEN [parsed EXCEPT !.access_lists = EnterAcl(@, c.words[4])]
       ELSE parsed
  ELSE IF ctx.mode = "acl"
       THEN [parsed EXCEPT !.access_lists = AddEntry(@, ctx.id, c.words)]
  ELSE IF ctx.mode = "interface"
       THEN IF c.words[1] = "no"
            THEN [parsed EXCEPT !.interfaces = SetBinding(@, ctx.id, c.words[5], NoneStr)]
            ELSE [parsed EXCEPT !.interfaces = SetBinding(@, ctx.id, c.words[4], c.words[3])]
  ELSE parsed

\* the mode the device is in after a line; lines under an interface it does
\* not have are rejected
AclModeAfter(parsed, c, ctx) ==
  IF c.indent = 1 THEN ctx
  ELSE IF c.words[1] = "ip" THEN [mode |-> "acl", id |-> c.words[4]]
  ELSE IF c.words[1] = "interface"
       THEN IF InterfaceGet(parsed, c.words[2]) # NoInterface
            THEN [mode |-> "interface", id |-> c.words[2]]
            ELSE [mode |-> "rejected", id |-> NoneStr]
  ELSE [mode |-> "global", id |-> NoneStr]

RECURSIVE AclApplyLines(_, _, _)
AclApplyLines(parsed, lines, ctx) ==
  IF lines = << >> THEN parsed
  ELSE AclApplyLines(AclApplyLine(parsed, Head(lines), ctx), Tail(lines),
                     AclModeAfter(parsed, Head(lines), ctx))

AclApply(parsed, lines) ==
  AclApplyLines(parsed, lines, [mode |-> "global", id |-> NoneStr])

\* ------------------------------------------------- build_security_acl runs
AclNames == {"OLD", "SEC-BLOCK"}

\* interface k is GigabitEthernet<k> or Loopback<k>, with or without an
\* address, shut down or not, bound to an ACL in one direction or unbound
AclInterfaceChoices(k) ==
  { [name |-> IfName(prefix, k), ip_address |-> ip, shutdown |-> sh,
     acl_in |-> b[1], acl_out |-> b[2]] :
      prefix \in {"GigabitEthernet", "Loopback"}, ip \in {NoneStr, "10.0.0.1"},
      sh \in BOOLEAN,
      b \in {<< NoneStr, NoneStr >>, << "OLD", NoneStr >>,
             << "SEC-BLOCK", NoneStr >>, << NoneStr, "OLD" >>} }

AclInterfaceLists ==
  UNION { { f \in [1..m -> UNION { AclInterfaceChoices(k) : k \in 1..m }] :
              \A k \in 1..m : f[k] \in AclInterfaceChoices(k) } : m \in 0..MaxAclIfaces }

\* the device has the ACL OLD, and the ACL SEC-BLOCK or not
AccessLists ==
  { [n \in {"OLD"} |-> << << "permit", "ip", "any", "any" >> >>],
    [n \in AclNames |-> IF n = "OLD" THEN << << "permit", "ip", "any", "any" >> >>
                        ELSE << << "deny", "tcp", "any", "any" >> >>] }

RuleDicts ==
  { [action |-> "deny", protocol |-> "tcp", source |-> "any",
     destination |-> "any eq 445", extras |-> "log"],
    [destination |-> "host 10.0.0.9"],
    [action |-> "permit", protocol |-> "ip", source |-> "any",
     destination |-> "any", extras |-> ""] }

RuleLists == UNION { [1..m -> RuleDicts] : m \in 0..MaxRules }

TargetLists ==
  { NoneList, ListOf(<< >>), ListOf(<< "GigabitEthernet1" >>),
    ListOf(<< "Loopback1", "GigabitEthernet1" >>) }

SecurityParams ==
  { [use_case |-> "security_advisory"],
    [use_case |-> "security_advisory", cve_id |-> "CVE1"],
    [use_case |-> "security_advisory", acl_rules |-> << >>] }

AclCall(fn, parsed, acl_name, rules, target_interfaces, direction, params) ==
  [phase |-> "acl_input", fn |-> fn, parsed |-> parsed, acl_name |-> acl_name,
   rules |-> rules, target_interfaces |-> target_interfaces,
   direction |-> direction, params |-> params,
   result |-> ConfigChangeResult, after |-> parsed, restored |-> parsed]

InitAcl ==
  /\ db = NoJob
  /\ tasks = << >>
  /\ evt = "none"
  /\ rejected = FALSE
  /\ rollbacks = 0
  /\ \E ifs \in AclInterfaceLists, acls \in AccessLists :
       LET parsed == [interfaces |-> ifs, access_lists |-> acls]
       IN  \/ \E rules \in RuleLists, target_interfaces \in TargetLists,
                 direction \in {"in", "out"} :
                cfg = AclCall("build_security_acl", parsed, "SEC-BLOCK", rules,
                              target_interfaces, direction,
                              [use_case |-> "security_advisory"])
           \/ \E params \in SecurityParams :
                cfg = AclCall("_build_security", parsed,
                              Get(params, "cve_id", "SEC") \o "-BLOCK",
                              Get(params, "acl_rules", DefaultAclRules),
                              NoneList, "in", params)

\* a caller builds the ACL change with its own arguments
BuildAcl ==
  /\ cfg.phase = "acl_input"
  /\ cfg.fn = "build_security_acl"
  /\ cfg' = [cfg EXCEPT !.phase = "acl_built",
               !.result = build_security_acl(cfg.parsed, cfg.acl_name, cfg.rules,
                                             cfg.target_interfaces, cfg.direction)]
  /\ UNCHANGED << db, tasks, evt, rejected, rollbacks >>

\* build_config_for_action dispatches a security action to the wrapper
BuildSecurity ==
  /\ cfg.phase = "acl_input"
  /\ cfg.fn = "_build_security"
  /\ cfg' = [cfg EXCEPT !.phase = "acl_built",
               !.result = _build_security(cfg.parsed, cfg.params)]
  /\ UNCHANGED << db, tasks, evt, rejected, rollbacks >>

\* the commands are applied to the device, then the rollback commands
AclApplyAndRollback ==
  /\ cfg.phase = "acl_built"
  /\ LET after == AclApply(cfg.parsed, cfg.result.commands)
     IN  cfg' = [cfg EXCEPT !.phase = "acl_rolled", !.after = after,
                   !.restored = AclApply(after, cfg.result.rollback_commands)]
  /\ UNCHANGED << db, tasks, evt, rejected, rollbacks >>

NextAcl == BuildAcl \/ BuildSecurity \/ AclApplyAndRollback

SpecAcl == InitAcl /\ [][NextAcl]_vars

\* the ACLs of a device and every interface's bindings
AclState(parsed) ==
  [access_lists |-> parsed.access_lists,
   bindings |-> { << parsed.interfaces[k].name, parsed.interfaces[k].acl_in,
                     parsed.interfaces[k].acl_out >> : k \in 1..Len(parsed.interfaces) }]

\* the interfaces the commands bind the ACL to, in the order of the commands
BoundBy(r, acl_name, direction) ==
  LET at == { p \in 2..Len(r.commands) :
                /\ r.commands[p] = AccessGroup(acl_name, direction)
                /\ r.commands[p - 1].indent = 0 }
  IN  { r.commands[p - 1].words[2] : p \in at }

\* C21: ACL rollback round trip.  Applying the commands of
\* build_security_acl and then its rollback commands restores the ACLs of the
\* device and every interface's binding: the ACL the change created is
\* removed, each target interface is unbound or bound to the ACL it was
\* bound to before.
C21_AclRoundTrip ==
  cfg.phase = "acl_rolled" => AclState(cfg.restored) = AclState(cfg.parsed)

\* the names of the interfaces of a config that satisfy a test
NamesWhere(parsed, Test(_)) ==
  { parsed.interfaces[k].name :
      k \in { j \in 1..Len(parsed.interfaces) : Test(parsed.interfaces[j]) } }

ActiveWithAddress(iface) == ~iface.shutdown /\ iface.ip_address # NoneStr

\* the commands after the ACL body are one interface line and one
\* access-group line per target, in the order of the targets
BindsInOrder(r, targets, acl_name, direction) ==
  LET first == Len(r.commands) - 2 * Len(targets)
  IN  /\ first >= 2
      /\ r.commands[first] = PermitAny
      /\ \A k \in 1..Len(targets) :
           /\ r.commands[first + 2 * k - 1] = InterfaceCmd(targets[k])
           /\ r.commands[first + 2 * k] = AccessGroup(acl_name, direction)

\* the interfaces the spec's sentence and the builder's docstring name
GigabitEthernetUp(iface) ==
  /\ iface.name \in { IfName("GigabitEthernet", k) : k \in 1..MaxAclIfaces }
  /\ ActiveWithAddress(iface)

\* C22: ACL binding targets.  Without an explicit interface list
\* build_security_acl binds the ACL to every interface whose name begins with
\* GigabitEthernet, that is not shut down and has an address, in the order
\* of the config, and to no other interface; with an explicit list it binds
\* exactly the interfaces of the list.
C22_BindingTargets ==
  cfg.phase = "acl_built" =>
    LET bound == BoundBy(cfg.result, cfg.acl_name, cfg.direction)
        wanted == SelectSeq(cfg.parsed.interfaces, GigabitEthernetUp)
    IN  IF cfg.target_interfaces.is_none
        THEN /\ bound = NamesWhere(cfg.parsed, GigabitEthernetUp)
             /\ BindsInOrder(cfg.result, [k \in 1..Len(wanted) |-> wanted[k].name],
                             cfg.acl_name, cfg.direction)
        ELSE /\ bound = { cfg.target_interfaces.items[k] :
                            k \in 1..Len(cfg.target_interfaces.items) }
             /\ BindsInOrder(cfg.result, cfg.target_interfaces.items,
                             cfg.acl_name, cfg.direction)

\* the registry wrapper ran on a config with an active GigabitEthernet
\* interface, which is bound, and an active Loopback interface, which is not
C22_Witness ==
  /\ cfg.phase = "acl_built"
  /\ cfg.fn = "_build_security"
  /\ BoundBy(cfg.result, cfg.acl_name, cfg.direction) = {"GigabitEthernet2"}
  /\ "Loopback1" \in NamesWhere(cfg.parsed, ActiveWithAddress)

\* C22 as stated: without an explicit list the ACL is bound to every
\* interface that is not shut down and has an address, and to no other.
C22_EveryActiveInterface ==
  (cfg.phase = "acl_built" /\ cfg.target_interfaces.is_none) =>
    BoundBy(cfg.result, cfg.acl_name, cfg.direction)
      = NamesWhere(cfg.parsed, ActiveWithAddress)

\* C23: ACL tail rule.  For every rule list, the empty one included, the
\* commands are the ACL header, one line per caller-supplied rule in the
\* order of the list, then " permit ip any any"; every line after it belongs
\* to an interface binding, and no interface line comes before it.
C23_TailRule ==
  cfg.phase = "acl_built" =>
    LET c == cfg.result.commands
        n == Len(cfg.rules)
    IN  /\ Len(c) >= n + 2
        /\ c[1] = Cmd(0, << "ip", "access-list", "extended", cfg.acl_name >>)
        /\ \A k \in 1..n :
             /\ c[1 + k].indent = 1
             /\ c[1 + k].words[1] = Get(cfg.rules[k], "action", "deny")
             /\ c[1 + k].words[4] = Get(cfg.rules[k], "destination", "any")
        /\ c[n + 2] = Cmd(1, << "permit", "ip", "any", "any" >>)
        /\ \A p \in 1..(n + 2) : c[p].words[1] # "interface"
        /\ \A p \in (n + 3)..Len(c) :
             \/ c[p].words[1] = "interface"
             \/ c[p].words[2] = "access-group"

\* an empty rule list, and the ACL is bound to an interface: the permit line
\* is the whole body and the interface line follows it
C23_Witness ==
  /\ cfg.phase = "acl_built"
  /\ cfg.rules = << >>
  /\ Len(cfg.result.commands) >= 4
  /\ cfg.result.commands[2] = PermitAny
  /\ cfg.result.commands[3].words[1] = "interface"

\* -------------------------------------------- build_credential_rotation
MaxUsers == 2

UserNames == { "user" \o ToString(k) : k \in 1..(MaxUsers - 1) } \cup {"admin"}

\* the passwords generate_secure_password may return
GeneratedPasswords == {"Xk3!generated", "p7Q@generated"}

\* parsed.users: the users of the config with their privilege or None
UserConfigs ==
  UNION { [S -> [privilege : {None, 1, 15}]] : S \in SUBSET UserNames }

ManualReset == << "Rollback for credential rotation requires manual password reset" >>

\* the rollback entry that always is the executable line
EnableRollbackExecutable(parsed) == Cmd(0, << "no", "enable", "secret" >>)

\* the rollback entry of the enable secret
EnableRollback(parsed) ==
  IF parsed.enable_secret_exists
  THEN Cmd(0, << "!", "WARNING: Cannot reverse hashed password. Manual reset required." >>)
  ELSE Cmd(0, << "no", "enable", "secret" >>)

build_credential_rotation(parsed, new_password, username) ==
  LET r0 == [ConfigChangeResult EXCEPT
               !.warnings = << << "Generated password:", new_password >> >>]
      r1 == [r0 EXCEPT
               !.commands = @ \o << Cmd(0, << "enable", "algorithm-type", "sha256",
                                             "secret", "0", new_password >>) >>,
               !.rollback_commands = @ \o << EnableRollback(parsed) >>]
      r2 == IF username \in DOMAIN parsed.users
            THEN LET user == parsed.users[username]
                     priv == IF user.privilege # None THEN user.privilege ELSE 15
                 IN  [r1 EXCEPT
                        !.commands = @ \o << Cmd(0, << "username", username, "privilege",
                                                      ToString(priv), "algorithm-type",
                                                      "sha256", "secret", "0",
                                                      new_password >>) >>,
                        !.rollback_commands = @ \o
                          << Cmd(0, << "!", "WARNING: Cannot reverse hashed password for user",
                                       username, "Manual reset required." >>) >>]
            ELSE [r1 EXCEPT
                    !.commands = @ \o << Cmd(0, << "username", username, "privilege",
                                                  ToString(15), "algorithm-type",
                                                  "sha256", "secret", "0",
                                                  new_password >>) >>,
                    !.rollback_commands = @ \o << Cmd(0, << "no", "username", username >>) >>,
                    !.warnings = @ \o << << "User not found in config, creating new user",
                                            username >> >>]
  IN  [r2 EXCEPT !.warnings = @ \o << ManualReset >>]

\* the registry wrapper: params.get("new_password"), params.get("username", "admin")
CredentialParams ==
  { [use_case |-> "credential_rotation"] }
  \cup { [use_case |-> "credential_rotation", username |-> u] : u \in UserNames }
  \cup { [use_case |-> "credential_rotation", new_password |-> "Explicit#1"] }
  \cup { [use_case |-> "credential_rotation", username |-> u,
          new_password |-> "Explicit#1"] : u \in UserNames }

CredCall(parsed, params) ==
  [phase |-> "cred_input", parsed |-> parsed, params |-> params,
   username |-> Get(params, "username", "admin"), result |-> ConfigChangeResult]

InitCred ==
  /\ db = NoJob
  /\ tasks = << >>
  /\ evt = "none"
  /\ rejected = FALSE
  /\ rollbacks = 0
  /\ \E enable_secret_exists \in BOOLEAN, users \in UserConfigs,
        params \in CredentialParams :
       cfg = CredCall([enable_secret_exists |-> enable_secret_exists,
                       users |-> users], params)

\* _build_credentials with a password of the caller
RotateGiven ==
  /\ cfg.phase = "cred_input"
  /\ "new_password" \in DOMAIN cfg.params
  /\ cfg' = [cfg EXCEPT !.phase = "cred_built",
               !.result = build_credential_rotation(cfg.parsed, cfg.params.new_password,
                                                    cfg.username)]
  /\ UNCHANGED << db, tasks, evt, rejected, rollbacks >>

\* _build_credentials without a password: one is generated
RotateGenerated ==
  /\ cfg.phase = "cred_input"
  /\ "new_password" \notin DOMAIN cfg.params
  /\ \E new_password \in GeneratedPasswords :
       cfg' = [cfg EXCEPT !.phase = "cred_built",
                 !.result = build_credential_rotation(cfg.parsed, new_password,
                                                      cfg.username)]
  /\ UNCHANGED << db, tasks, evt, rejected, rollbacks >>

NextCred == RotateGiven \/ RotateGenerated

SpecCred == InitCred /\ [][NextCred]_vars

\* a rollback entry that is a comment, not a command
IsComment(c) == c.words[1] = "!"

\* C24: credential rotation never has a silently wrong rollback.  The
\* commands and the rollback commands have the same length, entry by entry
\* about the enable secret and about the user; when the enable secret
\* (the user) exists in the parsed config its rollback entry is a comment
\* beginning with "!", otherwise it is the command that removes what was
\* created; the warnings always hold the manual-reset warning.
C24_RollbackExplicit ==
  cfg.phase = "cred_built" =>
    LET r == cfg.result
    IN  /\ Len(r.commands) = 2
        /\ Len(r.rollback_commands) = Len(r.commands)
        /\ r.commands[1].words[1] = "enable"
        /\ r.commands[2].words[1] = "username"
        /\ r.commands[2].words[2] = cfg.username
        /\ IF cfg.parsed.enable_secret_exists
           THEN IsComment(r.rollback_commands[1])
           ELSE r.rollback_commands[1].words = << "no", "enable", "secret" >>
        /\ IF cfg.username \in DOMAIN cfg.parsed.users
           THEN IsComment(r.rollback_commands[2])
           ELSE r.rollback_commands[2].words = << "no", "username", cfg.username >>
        /\ \E k \in 1..Len(r.warnings) : r.warnings[k] = ManualReset

\* the config has an enable secret and the user: both rollback entries are
\* comments
C24_Witness ==
  /\ cfg.phase = "cred_built"
  /\ cfg.parsed.enable_secret_exists
  /\ cfg.username \in DOMAIN cfg.parsed.users
  /\ IsComment(cfg.result.rollback_commands[1])
  /\ IsComment(cfg.result.rollback_commands[2])

\* ----------------------------------------------- services/device_resolver
MaxNodes == 3
MaxTargets == 2

\* a string is the sequence of its characters; the characters in the order
\* of their code points
Ascii ==
  << " ", "-", "0", "1", "2", "3", "4", "5", "6", "7", "8", "9", "A", "B",
     "C", "D", "E", "F", "G", "H", "I", "J", "K", "L", "M", "N", "O", "P",
     "Q", "R", "S", "T", "U", "V", "W", "X", "Y", "Z", "_", "a", "b", "c",
     "d", "e", "f", "g", "h", "i", "j", "k", "l", "m", "n", "o", "p", "q",
     "r", "s", "t", "u", "v", "w", "x", "y", "z" >>

Uppercase ==
  << "A", "B", "C", "D", "E", "F", "G", "H", "I", "J", "K", "L", "M", "N",
     "O", "P", "Q", "R", "S", "T", "U", "V", "W", "X", "Y", "Z" >>

Lowercase ==
  << "a", "b", "c", "d", "e", "f", "g", "h", "i", "j", "k", "l", "m", "n",
     "o", "p", "q", "r", "s", "t", "u", "v", "w", "x", "y", "z" >>

Ord(c) == CHOOSE k \in 1..Len(Ascii) : Ascii[k] = c

lower(s) ==
  [k \in 1..Len(s) |->
     IF \E u \in 1..Len(Uppercase) : Uppercase[u] = s[k]
     THEN Lowercase[CHOOSE u \in 1..Len(Uppercase) : Uppercase[u] = s[k]]
     ELSE s[k]]

upper(s) ==
  [k \in 1..Len(s) |->
     IF \E u \in 1..Len(Lowercase) : Lowercase[u] = s[k]
     THEN Uppercase[CHOOSE u \in 1..Len(Lowercase) : Lowercase[u] = s[k]]
     ELSE s[k]]

RECURSIVE lstrip(_)
lstrip(s) == IF s # << >> /\ Head(s) = " " THEN lstrip(Tail(s)) ELSE s

RECURSIVE rstrip(_)
rstrip(s) ==
  IF s # << >> /\ s[Len(s)] = " " THEN rstrip(SubSeq(s, 1, Len(s) - 1)) ELSE s

strip(s) == rstrip(lstrip(s))

\* a < b for strings: the first differing character decides, a proper prefix
\* is smaller
RECURSIVE StrLess(_, _)
StrLess(a, b) ==
  IF b = << >> THEN FALSE
  ELSE IF a = << >> THEN TRUE
  ELSE IF Head(a) = Head(b) THEN StrLess(Tail(a), Tail(b))
  ELSE Ord(Head(a)) < Ord(Head(b))

ROUTER_NODE_DEFINITIONS ==
  { << "c", "a", "t", "8", "0", "0", "0", "v" >>,
    << "i", "o", "s", "v" >>,
    << "c", "s", "r", "1", "0", "0", "0", "v" >>,
    << "i", "o", "s", "x", "r", "v", "9", "0", "0", "0" >>,
    << "i", "o", "s", "x", "r", "v" >>,
    << "i", "o", "s", "v", "l", "2" >> }

ACTIVE_NODE_STATES ==
  { << "B", "O", "O", "T", "E", "D" >>,
    << "S", "T", "A", "R", "T", "E", "D" >> }

ALL_KEYWORDS ==
  { << "a", "l", "l" >>,
    << "a", "l", "l", " ", "r", "o", "u", "t", "e", "r", "s" >>,
    << "a", "l", "l", " ", "d", "e", "v", "i", "c", "e", "s" >>,
    << "e", "v", "e", "r", "y", " ", "r", "o", "u", "t", "e", "r" >>,
    << "e", "v", "e", "r", "y", " ", "d", "e", "v", "i", "c", "e" >>,
    << "a", "l", "l", " ", "n", "e", "t", "w", "o", "r", "k", " ", "d", "e", "v", "i", "c", "e", "s" >>,
    << "a", "l", "l", " ", "o", "f", " ", "t", "h", "e", "m" >>,
    << "a", "l", "l", " ", "t", "h", "e", " ", "r", "o", "u", "t", "e", "r", "s" >> }

is_all_keyword(targets) ==
  IF targets = << >> \/ Len(targets) # 1 THEN FALSE
  ELSE lower(strip(targets[1])) \in ALL_KEYWORDS

\* a filter that does not look at the state of a node
IsRouter(node) == lower(node.node_definition) \in ROUTER_NODE_DEFINITIONS

\* the filter of get_available_routers; a missing value counts as ""
IsActiveRouter(node) ==
  /\ lower(node.node_definition) \in ROUTER_NODE_DEFINITIONS
  /\ upper(node.state) \in ACTIVE_NODE_STATES

\* list.sort(key=label): stable, smaller labels first
RECURSIVE InsertByLabel(_, _)
InsertByLabel(sorted, node) ==
  IF sorted = << >> THEN << node >>
  ELSE IF StrLess(node.label, Head(sorted).label)
       THEN << node >> \o sorted
       ELSE << Head(sorted) >> \o InsertByLabel(Tail(sorted), node)

RECURSIVE SortByLabel(_)
SortByLabel(nodes) ==
  IF nodes = << >> THEN << >>
  ELSE InsertByLabel(SortByLabel(SubSeq(nodes, 1, Len(nodes) - 1)), nodes[Len(nodes)])

get_available_routers(nodes) == SortByLabel(SelectSeq(nodes, IsActiveRouter))

Contains(seq, x) == \E k \in 1..Len(seq) : seq[k] = x

\* a match that regards case
MatchExactCase(available_labels, target_clean) ==
  IF Contains(available_labels, target_clean) THEN << target_clean >> ELSE << >>

\* the first available label that equals the target without regard to case
MatchOf(available_labels, target_clean) ==
  LET hits == { k \in 1..Len(available_labels) :
                  lower(available_labels[k]) = lower(target_clean) }
  IN  IF hits = {} THEN << >>
      ELSE << available_labels[CHOOSE k \in hits : \A j \in hits : k <= j] >>

\* a loop body that appends every match
AppendAlways(resolved, matched) == Append(resolved, matched)

\* "if matched not in resolved: resolved.append(matched)"
AppendNew(resolved, matched) ==
  IF Contains(resolved, matched) THEN resolved ELSE Append(resolved, matched)

\* the loop over the explicit names, from position k on
RECURSIVE ResolveEach(_, _, _, _)
ResolveEach(raw_targets, k, available_labels, out) ==
  IF k > Len(raw_targets) THEN out
  ELSE
    LET target_clean == strip(raw_targets[k])
        matched == MatchOf(available_labels, target_clean)
    IN  ResolveEach(raw_targets, k + 1, available_labels,
          IF matched # << >>
          THEN [out EXCEPT !.resolved = AppendNew(@, matched[1])]
          ELSE [out EXCEPT !.errors =
                  Append(@, [kind |-> "not found or not active",
                             device |-> target_clean,
                             available |-> available_labels])])

resolve_target_devices(raw_targets, nodes) ==
  IF raw_targets = << >>
  THEN [resolved |-> << >>,
        errors |-> << [kind |-> "No target devices specified", device |-> << >>,
                       available |-> << >>] >>]
  ELSE
    LET available == get_available_routers(nodes)
        available_labels == [k \in 1..Len(available) |-> available[k].label]
    IN  IF is_all_keyword(raw_targets)
        THEN IF available_labels = << >>
             THEN [resolved |-> << >>,
                   errors |-> << [kind |-> "No active routers found in CML lab",
                                  device |-> << >>, available |-> << >>] >>]
             ELSE [resolved |-> available_labels, errors |-> << >>]
        ELSE ResolveEach(raw_targets, 1, available_labels,
                         [resolved |-> << >>, errors |-> << >>])

\* ------------------------------------------------ resolve_target_devices runs
Labels == { << "R", "1" >>, << "r", "1" >>, << "R", "2" >> }

\* the nodes of a lab: routers that run, a router that is stopped, a switch
NodeKinds ==
  { [node_definition |-> << "i", "o", "s", "v" >>, state |-> << "B", "O", "O", "T", "E", "D" >>],
    [node_definition |-> << "I", "O", "S", "v" >>, state |-> << "s", "t", "a", "r", "t", "e", "d" >>],
    [node_definition |-> << "i", "o", "s", "v" >>, state |-> << "S", "T", "O", "P", "P", "E", "D" >>],
    [node_definition |-> << "u", "n", "m", "a", "n", "a", "g", "e", "d", "_", "s", "w", "i", "t", "c", "h" >>, state |-> << "B", "O", "O", "T", "E", "D" >>] }

Nodes ==
  { [label |-> l, node_definition |-> kind.node_definition, state |-> kind.state] :
      l \in Labels, kind \in NodeKinds }

\* the answer of client.get_nodes: every node has a label of its own
Inventories ==
  { inv \in UNION { [1..m -> Nodes] : m \in 0..MaxNodes } :
      \A i, j \in 1..Len(inv) : i # j => inv[i].label # inv[j].label }

TargetNames ==
  { << "R", "1" >>, << "r", "1" >>, << " ", "R", "2", " " >>, << "R", "9" >>, << "A", "L", "L" >>, << "a", "l", "l", " ", "r", "o", "u", "t", "e", "r", "s" >> }

RawTargets == UNION { [1..m -> TargetNames] : m \in 0..MaxTargets }

NoResolution == [resolved |-> << >>, errors |-> << >>]

InitResolver ==
  /\ db = NoJob
  /\ tasks = << >>
  /\ evt = "none"
  /\ rejected = FALSE
  /\ rollbacks = 0
  /\ \E raw_targets \in RawTargets, nodes \in Inventories :
       cfg = [phase |-> "targets", raw_targets |-> raw_targets, nodes |-> nodes,
              out |-> NoResolution]

\* process_intent_parsing asks the resolver with the targets of the intent
ResolveTargets ==
  /\ cfg.phase = "targets"
  /\ cfg' = [cfg EXCEPT !.phase = "resolved",
               !.out = resolve_target_devices(cfg.raw_targets, cfg.nodes)]
  /\ UNCHANGED << db, tasks, evt, rejected, rollbacks >>

NextResolver == ResolveTargets

SpecResolver == InitResolver /\ [][NextResolver]_vars

\* a node whose type is allow-listed and whose state is alive
AllowListedAlive(node) ==
  /\ lower(node.node_definition) \in ROUTER_NODE_DEFINITIONS
  /\ upper(node.state) \in ACTIVE_NODE_STATES

LabelsWhere(nodes, Test(_)) ==
  { nodes[k].label : k \in { j \in 1..Len(nodes) : Test(nodes[j]) } }

Elements(seq) == { seq[k] : k \in 1..Len(seq) }

\* C26: resolver "all".  For a single target that is an all-phrasing in any
\* case, the resolver returns exactly the labels of the nodes whose type is
\* allow-listed and whose state is alive, each once, in ascending order of
\* the label, and no error; when no node qualifies it returns no label and
\* one "no active routers" error.
C26_ResolveAll ==
  (cfg.phase = "resolved" /\ Len(cfg.raw_targets) = 1
     /\ lower(strip(cfg.raw_targets[1])) \in ALL_KEYWORDS) =>
    LET q == LabelsWhere(cfg.nodes, AllowListedAlive)
        r == cfg.out.resolved
    IN  IF q = {}
        THEN /\ r = << >>
             /\ Len(cfg.out.errors) = 1
             /\ cfg.out.errors[1].kind = "No active routers found in CML lab"
        ELSE /\ cfg.out.errors = << >>
             /\ Elements(r) = q
             /\ Len(r) = Cardinality(q)
             /\ \A i, j \in 1..Len(r) : i < j => StrLess(r[i], r[j])

\* "ALL" in capitals on a lab whose nodes are not in label order, with two
\* running routers and a node that does not qualify
C26_Witness ==
  /\ cfg.phase = "resolved"
  /\ cfg.raw_targets = << << "A", "L", "L" >> >>
  /\ Len(cfg.nodes) = 3
  /\ cfg.nodes[1].label = << "R", "2" >>
  /\ cfg.nodes[2].label = << "R", "1" >>
  /\ cfg.out.resolved = << << "R", "1" >>, << "R", "2" >> >>
  /\ cfg.out.errors = << >>

\* an explicit list of names: not empty and not an all-phrasing
ExplicitNames(raw_targets) ==
  /\ raw_targets # << >>
  /\ ~(Len(raw_targets) = 1 /\ lower(strip(raw_targets[1])) \in ALL_KEYWORDS)

CmlAnswers == {"no server", "no lab", "query failed", "nodes"}

\* the outcome of the handler: it raises, or it returns the intent with its
\* target devices
Raised == [outcome |-> "raise", target_devices |-> << >>]
Returned(target_devices) == [outcome |-> "intent", target_devices |-> target_devices]

process_intent_parsing(llm, raw_targets, cml, nodes) ==
  IF llm # "intent" THEN Raised
  ELSE IF raw_targets = << >> THEN Returned(raw_targets)
  ELSE IF cml # "nodes" THEN Returned(raw_targets)
  ELSE LET out == resolve_target_devices(raw_targets, nodes)
       IN  IF out.resolved = << >> THEN Raised ELSE Returned(out.resolved)

\* one run of process_pipeline_job; the intent names at most one target and
\* the lab has at most one node
InitIntent ==
  /\ db = [NoJob EXCEPT !.exists = TRUE, !.status = "queued"]
  /\ \E demo_mode \in BOOLEAN : tasks = << Task("ppj", demo_mode) >>
  /\ evt = "none"
  /\ rejected = FALSE
  /\ rollbacks = 0
  /\ \E llm \in {"intent", "out of scope"},
        raw_targets \in { t \in RawTargets : Len(t) <= 1 },
        cml \in CmlAnswers,
        nodes \in { inv \in Inventories : Len(inv) <= 1 } :
       cfg = [phase |-> "intent", llm |-> llm, raw_targets |-> raw_targets,
              cml |-> cml, nodes |-> nodes]

AtIntentParsing ==
  /\ tasks[1].pc = "handler"
  /\ CurStage(tasks[1]) = "intent_parsing"

\* a step of the run; the intent_parsing handler ends as
\* process_intent_parsing decides
IntentRun ==
  /\ Run(1)
  /\ AtIntentParsing =>
       LET out == process_intent_parsing(cfg.llm, cfg.raw_targets, cfg.cml, cfg.nodes)
       IN  IF out.outcome = "raise"
           THEN db'.sd["intent_parsing"].status = "failed"
           ELSE db'.sd["intent_parsing"] = Rec("completed", "full")

NextIntent == IntentRun

SpecIntent == InitIntent /\ [][NextIntent]_vars

\* the intent names target devices and the resolver finds none of them in
\* the inventory
NoneResolves ==
  /\ cfg.llm = "intent"
  /\ cfg.raw_targets # << >>
  /\ resolve_target_devices(cfg.raw_targets, cfg.nodes).resolved = << >>

\* C25: resolution failure is terminal before deployment.  Whenever the
\* intent names target devices and none of them resolves to a device of the
\* inventory, the intent_parsing stage fails, the job becomes failed, the run
\* ends, and no later stage is marked running in that run.
C25_ResolutionFailureTerminal ==
  /\ [][ (AtIntentParsing /\ NoneResolves) =>
           /\ db'.sd["intent_parsing"] = Rec("failed", "error")
           /\ db'.status = "failed"
           /\ tasks'[1].pc = "done" ]_vars
  /\ [](NoneResolves =>
          \A n \in 3..Len(Stages) : db.sd[Stages[n]].status = "pending")

\* ------------------------------------------------------ process_monitoring
MaxDevices == 2
MaxCount == 1

\* an Optional[bool]
NoneBool == [is_none |-> TRUE, value |-> FALSE]
Bool(b) == [is_none |-> FALSE, value |-> b]

UP_STATUS == << "u", "p" >>

\* sum(1 for i in interfaces if i.get("status", "").lower() == "up")
count_interfaces_up(interfaces) ==
  Cardinality({ k \in 1..Len(interfaces) : lower(interfaces[k].status) = UP_STATUS })

\* the three counts of a collected state
CountsOf(state) ==
  [neighbors |-> Len(state.ospf_neighbors),
   intf_up |-> count_interfaces_up(state.interfaces),
   routes |-> Len(state.routes)]

\* a change with the wrong sign
DeltaReversed(before, after) ==
  [before |-> before, after |-> after, change |-> before - after]

Delta(before, after) == [before |-> before, after |-> after, change |-> after - before]

\* a health test that accepts a device without routes
device_healthy_any_routes(b, c) ==
  /\ c.neighbors >= b.neighbors
  /\ c.intf_up >= b.intf_up
  /\ c.routes >= 0

device_healthy(b, c) ==
  /\ c.neighbors >= b.neighbors
  /\ c.intf_up >= b.intf_up
  /\ c.routes > 0

NoTotals ==
  [neighbors_before |-> 0, neighbors_after |-> 0, interfaces_before |-> 0,
   interfaces_after |-> 0, routes_before |-> 0, routes_after |-> 0]

\* the loop over the deployed devices, from position k on
RECURSIVE MonitorEach(_, _, _, _, _)
MonitorEach(deployed_devices, k, baselines, currents, acc) ==
  IF k > Len(deployed_devices) THEN acc
  ELSE
    LET device_label == deployed_devices[k]
        b == CountsOf(baselines[device_label])
        c == CountsOf(currents[device_label])
        device_diff ==
          [ospf_neighbors |-> Delta(b.neighbors, c.neighbors),
           interfaces_up |-> Delta(b.intf_up, c.intf_up),
           routes |-> Delta(b.routes, c.routes)]
        healthy == device_healthy(b, c)
        agg == [neighbors_before |-> acc.agg.neighbors_before + b.neighbors,
                neighbors_after |-> acc.agg.neighbors_after + c.neighbors,
                interfaces_before |-> acc.agg.interfaces_before + b.intf_up,
                interfaces_after |-> acc.agg.interfaces_after + c.intf_up,
                routes_before |-> acc.agg.routes_before + b.routes,
                routes_after |-> acc.agg.routes_after + c.routes]
    IN  MonitorEach(deployed_devices, k + 1, baselines, currents,
          [per_device |-> [d \in (DOMAIN acc.per_device) \cup {device_label} |->
                             IF d = device_label
                             THEN [diff |-> device_diff, healthy |-> healthy]
                             ELSE acc.per_device[d]],
           agg |-> agg,
           all_healthy |-> acc.all_healthy /\ healthy])

NoMonitoring ==
  [per_device |-> << >>, diff |-> << >>, deployment_healthy |-> NoneBool]

\* cml: the CML server and the lab are known and the collection runs
\* ("collected"), they are not known ("no server"), or the collection raises
process_monitoring(cml, deployed_devices, baselines, currents) ==
  IF cml # "collected" THEN NoMonitoring
  ELSE
    LET acc == MonitorEach(deployed_devices, 1, baselines, currents,
                           [per_device |-> << >>, agg |-> NoTotals, all_healthy |-> TRUE])
    IN  [per_device |-> acc.per_device,
         diff |-> [ospf_neighbors |-> Delta(acc.agg.neighbors_before, acc.agg.neighbors_after),
                   interfaces_up |-> Delta(acc.agg.interfaces_before, acc.agg.interfaces_after),
                   routes |-> Delta(acc.agg.routes_before, acc.agg.routes_after)],
         deployment_healthy |-> Bool(acc.all_healthy)]

\* ------------------------------------------------- process_monitoring runs
DeviceLabels == { "Router-" \o ToString(k) : k \in 1..MaxDevices }

DeployedLists ==
  { [k \in 1..m |-> "Router-" \o ToString(k)] : m \in 1..MaxDevices }

Items(n) == [k \in 1..n |-> k]

\* the interface lists a device reports: none, one that is up, one up and
\* one down
InterfaceStatusLists ==
  { << >>,
    << [status |-> << "U", "P" >>] >>,
    << [status |-> << "u", "p" >>], [status |-> << "d", "o", "w", "n" >>] >> }

NetworkStates ==
  { [ospf_neighbors |-> Items(n), interfaces |-> ifs, routes |-> Items(r)] :
      n \in 0..MaxCount, ifs \in InterfaceStatusLists, r \in 0..MaxCount }

InitMonitor ==
  /\ db = NoJob
  /\ tasks = << >>
  /\ evt = "none"
  /\ rejected = FALSE
  /\ rollbacks = 0
  /\ \E deployed_devices \in DeployedLists,
        cml \in {"collected", "no server", "raises"} :
       \E baselines \in [Elements(deployed_devices) -> NetworkStates],
          currents \in [Elements(deployed_devices) -> NetworkStates] :
         cfg = [phase |-> "deployed", cml |-> cml,
                deployed_devices |-> deployed_devices,
                baselines |-> baselines, currents |-> currents,
                monitoring_data |-> NoMonitoring]

\* the monitoring stage collects the state of every deployed device
Monitor ==
  /\ cfg.phase = "deployed"
  /\ cfg' = [cfg EXCEPT !.phase = "monitored",
               !.monitoring_data =
                 process_monitoring(cfg.cml, cfg.deployed_devices, cfg.baselines,
                                    cfg.currents)]
  /\ UNCHANGED << db, tasks, evt, rejected, rollbacks >>

NextMonitor == Monitor

SpecMonitor == InitMonitor /\ [][NextMonitor]_vars

\* the number of interfaces of a list that are up, in any case of the word
UpCount(interfaces) ==
  Cardinality({ k \in 1..Len(interfaces) : lower(interfaces[k].status) = UP_STATUS })

RECURSIVE SumOver(_, _)
SumOver(S, f) ==
  IF S = {} THEN 0
  ELSE LET x == CHOOSE y \in S : TRUE IN f[x] + SumOver(S \ {x}, f)

\* the rule of the claim on before and after counts
NotWorse(nb, na, ub, ua, ra) == na >= nb /\ ua >= ub /\ ra > 0

\* C29: per-device diff and health.  For each deployed device the monitoring
\* data has before, after and change = after - before for the number of OSPF
\* neighbors, the number of interfaces that are up and the number of OSPF
\* routes, and the device is healthy exactly when the neighbors did not
\* decrease, the interfaces that are up did not decrease and there is at
\* least one route afterwards.
C29_DeviceDiff ==
  (cfg.phase = "monitored" /\ cfg.cml = "collected") =>
    \A d \in Elements(cfg.deployed_devices) :
      LET b == cfg.baselines[d]
          c == cfg.currents[d]
          nb == Len(b.ospf_neighbors)
          na == Len(c.ospf_neighbors)
          ub == UpCount(b.interfaces)
          ua == UpCount(c.interfaces)
          rb == Len(b.routes)
          ra == Len(c.routes)
          r == cfg.monitoring_data.per_device[d]
      IN  /\ r.diff.ospf_neighbors = [before |-> nb, after |-> na, change |-> na - nb]
          /\ r.diff.interfaces_up = [before |-> ub, after |-> ua, change |-> ua - ub]
          /\ r.diff.routes = [before |-> rb, after |-> ra, change |-> ra - rb]
          /\ r.healthy <=> NotWorse(nb, na, ub, ua, ra)

\* a device lost its neighbor: change -1, not healthy
C29_Witness ==
  /\ cfg.phase = "monitored"
  /\ cfg.cml = "collected"
  /\ cfg.deployed_devices = << "Router-1" >>
  /\ cfg.monitoring_data.per_device["Router-1"].diff.ospf_neighbors.change = -1
  /\ cfg.monitoring_data.per_device["Router-1"].diff.routes.after > 0
  /\ ~cfg.monitoring_data.per_device["Router-1"].healthy

\* the totals of the before and after counts over the deployed devices
FleetTotals ==
  LET D == Elements(cfg.deployed_devices)
  IN  [nb |-> SumOver(D, [d \in D |-> Len(cfg.baselines[d].ospf_neighbors)]),
       na |-> SumOver(D, [d \in D |-> Len(cfg.currents[d].ospf_neighbors)]),
       ub |-> SumOver(D, [d \in D |-> UpCount(cfg.baselines[d].interfaces)]),
       ua |-> SumOver(D, [d \in D |-> UpCount(cfg.currents[d].interfaces)]),
       rb |-> SumOver(D, [d \in D |-> Len(cfg.baselines[d].routes)]),
       ra |-> SumOver(D, [d \in D |-> Len(cfg.currents[d].routes)])]

\* C30: fleet diff and health.  The reported diff is computed from the
\* before and after counts summed over all deployed devices; the deployment
\* is healthy exactly when every deployed device is healthy by the
\* per-device rule, and then the summed neighbors and the summed interfaces
\* that are up did not decrease and the summed routes afterwards are
\* positive.
C30_FleetDiff ==
  (cfg.phase = "monitored" /\ cfg.cml = "collected") =>
    LET t == FleetTotals
        m == cfg.monitoring_data
    IN  /\ m.diff.ospf_neighbors = [before |-> t.nb, after |-> t.na, change |-> t.na - t.nb]
        /\ m.diff.interfaces_up = [before |-> t.ub, after |-> t.ua, change |-> t.ua - t.ub]
        /\ m.diff.routes = [before |-> t.rb, after |-> t.ra, change |-> t.ra - t.rb]
        /\ ~m.deployment_healthy.is_none
        /\ m.deployment_healthy.value <=>
             \A d \in Elements(cfg.deployed_devices) :
               NotWorse(Len(cfg.baselines[d].ospf_neighbors),
                        Len(cfg.currents[d].ospf_neighbors),
                        UpCount(cfg.baselines[d].interfaces),
                        UpCount(cfg.currents[d].interfaces),
                        Len(cfg.currents[d].routes))
        /\ m.deployment_healthy.value => NotWorse(t.nb, t.na, t.ub, t.ua, t.ra)

\* two devices with a neighbor each before and after: the diff has the sums
\* and the deployment is healthy
C30_Witness ==
  /\ cfg.phase = "monitored"
  /\ cfg.cml = "collected"
  /\ Len(cfg.deployed_devices) = 2
  /\ cfg.monitoring_data.diff.ospf_neighbors = [before |-> 2, after |-> 2, change |-> 0]
  /\ cfg.monitoring_data.deployment_healthy = Bool(TRUE)

\* C30 as stated: deployment_healthy is true exactly when the summed
\* neighbors did not decrease, the summed interfaces that are up did not
\* decrease and the summed routes afterwards are positive.
C30_HealthyByTotals ==
  (cfg.phase = "monitored" /\ cfg.cml = "collected") =>
    LET t == FleetTotals
    IN  cfg.monitoring_data.deployment_healthy.value
          <=> NotWorse(t.nb, t.na, t.ub, t.ua, t.ra)

\* ------------------------------------------------ approvals, one and many
\* a step of approve_operation, whatever the decision and the state of Redis
ApproveStep ==
  \E approved \in BOOLEAN, redis_ok \in BOOLEAN : approve_operation(approved, redis_ok)

\* the job waits for the decision: Paused at human_decision, that stage completed
AwaitingApproval ==
  /\ db.status = "paused"
  /\ db.stage = "human_decision"
  /\ db.sd["human_decision"].status = "completed"

\* the operator sends decisions as often as they like (the enqueue works or
\* not); the worker runs what is enqueued.  No retry: one run of the job.
\* one step of continue_pipeline_after_approval for task k
ContinuationRun(k) ==
  \/ Load(k)
  \/ SetRunning(k)
  \/ StageBegin(k)
  \/ \E result \in {"full", "empty", "raise"} : StageEnd(k, result)
  \/ DemoPause(k)
  \/ DemoResume(k)
  \/ Finish(k)

NextApprove ==
  \/ \E k \in TaskIds : ContinuationRun(k)
  \/ ApproveStep

SpecApprove == InitGate /\ [][NextApprove]_vars

\* C34: deploy at most once per approved run.  In one run of the job,
\* however many approve calls are made, the deployment stage is started at
\* most once: a run marks cml_deployment running (and then applies the
\* configuration) only while the record of that stage is still pending.
C34_DeployOnce ==
  [][ \A k \in TaskIds :
        MarksRunning(k, "cml_deployment") => db.sd["cml_deployment"].status = "pending" ]_vars

\* C35: approve_operation acts only on a job that awaits approval.  A step
\* of approve_operation that changes the row or the queue starts from a job
\* that is Paused at current_stage human_decision with that stage completed.
C35_ApproveOnlyAwaiting ==
  [][ (ApproveStep /\ << db, tasks >>' # << db, tasks >>) => AwaitingApproval ]_vars

\* C37: Completed means every stage completed.  If the job's status is
\* Completed, each of the 11 stages has a record with status completed.
C37_CompletedAllStages ==
  db.status = "completed" => \A s \in StageNames : db.sd[s].status = "completed"

\* ------------------------------------------------ the WebSocket manager
MaxConnections == 2

Connections == 1..MaxConnections

\* the set of the elements of a list
Range(list) == { list[n] : n \in 1..Len(list) }

\* the manager before any call: no client, nothing sent
NoClients ==
  [phase |-> "connected", active_connections |-> << >>,
   sent |-> {}, failed |-> {}, raised |-> FALSE]

\* WebSocketManager.disconnect: remove the connection from active_connections
disconnect(active_connections, websocket) ==
  SelectSeq(active_connections, LAMBDA c : c # websocket)

\* a send without the try: the exception leaves broadcast
SendUnguarded(acc, connection, ok) ==
  IF ok THEN [acc EXCEPT !.sent = @ \cup {connection}]
  ELSE [acc EXCEPT !.raised = TRUE]

\* one turn of broadcast's loop: send_json inside try / except Exception
TrySend(acc, connection, ok) ==
  IF ok THEN [acc EXCEPT !.sent = @ \cup {connection}]
  ELSE [acc EXCEPT !.disconnected = Append(@, connection)]

\* the loop over active_connections, from position n on; an exception that
\* leaves a turn ends the loop
RECURSIVE SendEach(_, _, _, _)
SendEach(active_connections, n, ok, acc) ==
  IF n > Len(active_connections) \/ acc.raised THEN acc
  ELSE SendEach(active_connections, n + 1, ok,
                TrySend(acc, active_connections[n], ok[active_connections[n]]))

\* the clean-up loop: disconnect every connection whose send failed
RECURSIVE DisconnectEach(_, _, _)
DisconnectEach(active_connections, disconnected, n) ==
  IF n > Len(disconnected) THEN active_connections
  ELSE DisconnectEach(disconnect(active_connections, disconnected[n]), disconnected, n + 1)

\* WebSocketManager.broadcast(message); ok[c] tells whether send_json to c
\* returns (TRUE) or raises (FALSE)
broadcast(active_connections, ok) ==
  IF active_connections = << >>
    THEN [active_connections |-> << >>, sent |-> {}, failed |-> {}, raised |-> FALSE]
    ELSE LET acc == SendEach(active_connections, 1, ok,
                             [sent |-> {}, disconnected |-> << >>, raised |-> FALSE])
         IN  [active_connections |->
                IF acc.raised THEN active_connections
                ELSE DisconnectEach(active_connections, acc.disconnected, 1),
              sent |-> acc.sent,
              failed |-> Range(acc.disconnected),
              raised |-> acc.raised]

\* an exception inside the run of task k: the except clause of the task
\* function sets Failed and commits
RunRaises(k) ==
  LET old == tasks[k].obj
      new == [old EXCEPT !.status = "failed"]
  IN  /\ db' = Flush(db, old, new, FALSE)
      /\ tasks' = [tasks EXCEPT ![k] = Done(@)]

\* a client connects
connect(websocket) ==
  /\ websocket \notin Range(cfg.active_connections)
  /\ cfg' = [cfg EXCEPT !.phase = "connected",
                        !.active_connections = Append(@, websocket)]
  /\ UNCHANGED << db, tasks, evt, rejected, rollbacks >>

\* run k awaits manager.broadcast for the event it has just built; some of
\* the sends raise
Broadcast(k, ok) ==
  /\ tasks[k].pc # "queued"
  /\ LET r == broadcast(cfg.active_connections, ok)
     IN  /\ cfg' = [phase |-> "broadcast", active_connections |-> r.active_connections,
                    sent |-> r.sent, failed |-> r.failed, raised |-> r.raised]
         /\ IF r.raised /\ tasks[k].pc # "done"
              THEN RunRaises(k)
              ELSE UNCHANGED << db, tasks >>
  /\ UNCHANGED << evt, rejected, rollbacks >>

\* one run of either task function, alone, with clients that come and whose
\* connections break
InitEvents ==
  /\ \E demo_mode \in BOOLEAN :
        \/ /\ db = [NoJob EXCEPT !.exists = TRUE, !.status = "queued"]
           /\ tasks = << Task("ppj", demo_mode) >>
        \/ /\ db = [AtGate EXCEPT !.status = "running"]
           /\ tasks = << Task("cont", demo_mode) >>
  /\ evt = "none"
  /\ rejected = FALSE
  /\ rollbacks = 0
  /\ cfg = NoClients

NextEvents ==
  \/ Run(1)
  \/ \E websocket \in Connections : connect(websocket)
  \/ \E ok \in [Connections -> BOOLEAN] : Broadcast(1, ok)

SpecEvents == InitEvents /\ [][NextEvents]_vars

\* C33: events are observational only.  broadcast never raises, whatever
\* sends fail: every connection whose send succeeds has the message, the
\* others are dropped from active_connections; and a step of the manager
\* changes neither the job row nor the run, so that every change of the job
\* and its stage records is a step of the run alone.
C33_EventsObservational ==
  /\ [](~cfg.raised)
  /\ [][ cfg' # cfg => UNCHANGED << db, tasks >> ]_vars
  /\ [][ << db, tasks >>' # << db, tasks >> => Run(1) ]_vars
  /\ [][ (cfg'.phase = "broadcast" /\ cfg' # cfg) =>
           /\ cfg'.sent \cup cfg'.failed = Range(cfg.active_connections)
           /\ cfg'.sent \cap cfg'.failed = {}
           /\ Range(cfg'.active_connections) = cfg'.sent ]_vars

\* during the run the first of two sends failed and the second client has
\* the message; the run is still going and has reached the deployment
C33_Witness ==
  /\ cfg.phase = "broadcast"
  /\ cfg.failed = {1}
  /\ cfg.sent = {2}
  /\ cfg.active_connections = << 2 >>
  /\ tasks[1].pc = "handler"
  /\ CurStage(tasks[1]) = "cml_deployment"
  /\ db.status = "running"

\* ------------------------------------- a run and rollback calls beside it
\* a step of rollback_operation, accepted or refused, whatever the devices do
RollbackStep ==
  \E confirm \in BOOLEAN, outcome \in {"no_server", "all_ok", "some_failed"} :
    rollback_operation(confirm, outcome)

\* one run of either task function and rollback calls at any moment
NextRollback ==
  \/ Run(1)
  \/ RollbackStep

SpecRollback == InitDemo /\ [][NextRollback]_vars

\* C38: rollback frame.  A step of rollback_operation, whether it succeeds,
\* fails or is refused, leaves the job's status, current_stage, retry_count
\* and the record of every forward stage as they are.
C38_RollbackFrame ==
  [][ RollbackStep =>
        /\ db'.status = db.status
        /\ db'.stage = db.stage
        /\ db'.retry = db.retry
        /\ \A s \in StageNames : db'.sd[s] = db.sd[s] ]_vars

\* a rollback has applied its commands while the continuation was still
\* running the stages after the deployment, and one more found no CML server
C38_Witness ==
  /\ rollbacks = 1
  /\ evt = "operation.rollback.failed"
  /\ db.sd["cml_deployment"] = Rec("completed", "full")
  /\ db.status = "running"
  /\ db.stage = "monitoring"

\* -------------------------------------------------- collect_network_state
\* the five commands of a snapshot, in the order they are run
Metrics == << "ospf", "interfaces", "routes", "cpu", "memory" >>

MetricNames == Range(Metrics)

\* the text collect_network_state puts in front of the exception message
ErrorText ==
  [m \in MetricNames |->
     CASE m = "ospf" -> "OSPF collection failed"
       [] m = "interfaces" -> "Interface collection failed"
       [] m = "routes" -> "Route collection failed"
       [] m = "cpu" -> "CPU collection failed"
       [] OTHER -> "Memory collection failed"]

\* a dict entry holding an optional integer: no key, None, or a number
NoKey == [key |-> FALSE, is_none |-> TRUE, value |-> 0]
NoneInt == [key |-> TRUE, is_none |-> TRUE, value |-> 0]
SomeInt(n) == [key |-> TRUE, is_none |-> FALSE, value |-> n]

\* the snapshot before the first command
EmptyState ==
  [ospf_neighbors |-> << >>, interfaces |-> << >>, routes |-> << >>,
   cpu_utilization_percent |-> NoKey, memory_utilization_percent |-> NoKey,
   errors |-> << >>, raised |-> FALSE]

\* a command run outside a try: its exception leaves collect_network_state
RunUnguarded(state, metric, raises, updated) ==
  IF state.raised THEN state
  ELSE IF metric \in raises THEN [state EXCEPT !.raised = TRUE]
  ELSE updated

\* one try block: the command and the parsing of its output, or the except
\* clause that appends to errors
TryMetric(state, metric, raises, updated) ==
  IF state.raised THEN state
  ELSE IF metric \in raises THEN [state EXCEPT !.errors = Append(@, ErrorText[metric])]
  ELSE updated

\* raises: the commands whose run_command raises; out: what the parsing of
\* each output yields (lists of matching lines, a CPU figure or no match,
\* memory used and total or no match)
collect_network_state(raises, out) ==
  LET s1 == TryMetric(EmptyState, "ospf", raises,
                      [EmptyState EXCEPT !.ospf_neighbors = out.ospf_neighbors])
      s2 == TryMetric(s1, "interfaces", raises, [s1 EXCEPT !.interfaces = out.interfaces])
      s3 == TryMetric(s2, "routes", raises, [s2 EXCEPT !.routes = out.routes])
      s4 == TryMetric(s3, "cpu", raises,
                      [s3 EXCEPT !.cpu_utilization_percent =
                         IF out.cpu.match THEN SomeInt(out.cpu.percent) ELSE NoneInt])
  IN  TryMetric(s4, "memory", raises,
                [s4 EXCEPT !.memory_utilization_percent =
                   IF ~out.memory.match THEN @
                   ELSE IF out.memory.total > 0
                     THEN SomeInt((out.memory.used * 100) \div out.memory.total)
                     ELSE NoneInt])

\* process_baseline_collection for one target device: a dict in every case
process_baseline_collection(cml, raises, out) ==
  IF cml # "collected"
    THEN [collected |-> FALSE, baselines |-> << >>]
    ELSE LET baseline == collect_network_state(raises, out)
         IN  IF baseline.raised
               THEN [collected |-> FALSE, baselines |-> << >>]
               ELSE [collected |-> TRUE, baselines |-> << baseline >>]

\* what the parsing of the five outputs can yield
CommandOutputs ==
  { [ospf_neighbors |-> Items(n), interfaces |-> ifs, routes |-> Items(r),
     cpu |-> cpu, memory |-> mem] :
      n \in {1}, ifs \in {<< [status |-> UP_STATUS] >>}, r \in 0..MaxCount,
      cpu \in {[match |-> FALSE, percent |-> 0], [match |-> TRUE, percent |-> 7]},
      mem \in {[match |-> FALSE, used |-> 0, total |-> 0],
               [match |-> TRUE, used |-> 1, total |-> 4],
               [match |-> TRUE, used |-> 0, total |-> 0]} }

\* one continuation on an approved job; the CML server and lab are there or
\* not, some of the commands raise
InitCollect ==
  /\ db = [AtGate EXCEPT !.status = "running"]
  /\ \E demo_mode \in BOOLEAN : tasks = << Task("cont", demo_mode) >>
  /\ evt = "none"
  /\ rejected = FALSE
  /\ rollbacks = 0
  /\ \E cml \in {"collected", "no server", "raises"},
        raises \in SUBSET MetricNames,
        out \in CommandOutputs :
       cfg = [phase |-> "collect", cml |-> cml, raises |-> raises, out |-> out]

AtStage(stage) ==
  /\ tasks[1].pc = "handler"
  /\ CurStage(tasks[1]) = stage

\* a step of the run; the handler of baseline_collection ends as
\* process_baseline_collection decides, and process_monitoring returns
\* monitoring_data from every branch, its except clause included
CollectRun ==
  /\ Run(1)
  /\ AtStage("baseline_collection") =>
       LET b == process_baseline_collection(cfg.cml, cfg.raises, cfg.out)
       IN  db'.sd["baseline_collection"] =
             Rec("completed", IF b.collected THEN "full" ELSE "empty")
  /\ AtStage("monitoring") => db'.sd["monitoring"] = Rec("completed", "full")

NextCollect == CollectRun

SpecCollect == InitCollect /\ [][NextCollect]_vars

\* the positions of a list that hold x
Positions(list, x) == { n \in 1..Len(list) : list[n] = x }

Changes ==
  { [commands |-> << "router ospf 1" >>, rollback_commands |-> << "no router ospf 1" >>],
    [commands |-> << "router ospf 2" >>, rollback_commands |-> << "no router ospf 2" >>],
    [commands |-> << "interface Loopback0" >>, rollback_commands |-> << >>] }

\* process_config_generation, the part that builds the stage result: the
\* flat fields are those of the first target device
config_generation_result(target_devices, per_device_configs) ==
  LET first_cfg == per_device_configs[target_devices[1]]
  IN  [commands |-> first_cfg.commands,
       rollback_commands |-> first_cfg.rollback_commands,
       per_device_configs |-> per_device_configs,
       target_devices |-> target_devices]

\* process_cml_deployment: each device found in the lab gets its own commands
cml_deployment_result(config, found) ==
  LET device_results ==
        [d \in Range(config.target_devices) |->
           [deployed |-> d \in found,
            commands |-> IF d \in found THEN config.per_device_configs[d].commands ELSE << >>]]
  IN  [deployed |-> \E d \in Range(config.target_devices) : device_results[d].deployed,
       device_results |-> device_results]

\* rollback_operation, the part that chooses what to apply: the commands are
\* the flat rollback_commands of config_generation, the devices those that
\* were deployed; fails: the devices on which apply_config raises
rollback_plan(config, deployment, fails) ==
  LET rollback_commands == config.rollback_commands
      devices_to_rollback ==
        { d \in DOMAIN deployment.device_results : deployment.device_results[d].deployed }
  IN  IF ~deployment.deployed \/ rollback_commands = << >> \/ devices_to_rollback = {}
        THEN [refused |-> TRUE, applied |-> << >>, success |-> FALSE]
        ELSE [refused |-> FALSE,
              applied |-> [d \in devices_to_rollback |->
                            [commands |-> rollback_commands, success |-> d \notin fails]],
              success |-> devices_to_rollback \cap fails = {}]

\* a job of one to MaxDevices target devices, each with the change the
\* builder produced from its running config
InitFleet ==
  /\ db = NoJob
  /\ tasks = << >>
  /\ evt = "none"
  /\ rejected = FALSE
  /\ rollbacks = 0
  /\ \E target_devices \in DeployedLists :
       \E per_device_configs \in [Range(target_devices) -> Changes] :
         cfg = [phase |-> "generated",
                config |-> config_generation_result(target_devices, per_device_configs),
                deployment |-> << >>,
                rollback |-> << >>]

\* the deployment stage: some of the devices are found in the lab
DeployFleet ==
  /\ cfg.phase = "generated"
  /\ \E found \in SUBSET Range(cfg.config.target_devices) :
       cfg' = [cfg EXCEPT !.phase = "deployed",
                          !.deployment = cml_deployment_result(cfg.config, found)]
  /\ UNCHANGED << db, tasks, evt, rejected, rollbacks >>

\* POST /operations/{id}/rollback on the deployed job
RollbackFleet ==
  /\ cfg.phase = "deployed"
  /\ \E fails \in SUBSET Range(cfg.config.target_devices) :
       cfg' = [cfg EXCEPT !.phase = "rolled_back",
                          !.rollback = rollback_plan(cfg.config, cfg.deployment, fails)]
  /\ UNCHANGED << db, tasks, evt, rejected, rollbacks >>

NextFleet == DeployFleet \/ RollbackFleet

SpecFleet == InitFleet /\ [][NextFleet]_vars

\* C36: rollback uses each device's own commands.  An accepted rollback of
\* a multi-device job applies to each successfully deployed device the
\* rollback commands that config generation produced for that device.
C36_OwnRollbackCommands ==
  (cfg.phase = "rolled_back" /\ ~cfg.rollback.refused) =>
    \A d \in DOMAIN cfg.rollback.applied :
      cfg.rollback.applied[d].commands
        = cfg.config.per_device_configs[d].rollback_commands

(***************************************************************************)
(* parse_running_config of services/config_builder.py.  A line of the      *)
(* device output is its indentation and its whitespace-separated words;    *)
(* the regular expressions are tests on the first words.  The lines that   *)
(* set users and the enable secret (202-220) touch neither the sections    *)
(* nor the objects below and are not among the input lines.                *)
(***************************************************************************)
MaxLines == 4

ConfigLine(indent, words) == [indent |-> indent, words |-> words]

Word(line, n) == IF n <= Len(line.words) THEN line.words[n] ELSE ""

Rest(line, n) ==
  IF n <= Len(line.words) THEN SubSeq(line.words, n, Len(line.words)) ELSE << >>

\* int(): the words it converts, and their values
DecimalValue == ("0" :> 0) @@ ("1" :> 1) @@ ("10" :> 10)

\* \d+ matches the words int() converts
Decimals == DOMAIN DecimalValue

\* str.isdigit() is also true of digit characters int() rejects, such as
\* SUPERSCRIPT TWO (the word "U+00B2" stands for that one character)
IsDigitWords == Decimals \cup {"U+00B2"}

\* \d+\.\d+\.\d+\.\d+
DottedQuads == {"10.0.0.1", "255.255.255.0", "10.0.0.0", "0.0.0.255", "1.1.1.1"}

\* first words that match \S+[#>]
PromptWords == {"R1#"}

RE_HOSTNAME(line) ==
  ~line.indent /\ Len(line.words) >= 2 /\ Word(line, 1) = "hostname"

RE_INTERFACE(line) ==
  ~line.indent /\ Len(line.words) >= 2 /\ Word(line, 1) = "interface"

RE_ROUTER_OSPF(line) ==
  /\ ~line.indent
  /\ Word(line, 1) = "router"
  /\ Word(line, 2) = "ospf"
  /\ Word(line, 3) \in Decimals

RE_ACL_NAMED(line) ==
  /\ ~line.indent
  /\ Len(line.words) >= 4
  /\ Word(line, 1) = "ip"
  /\ Word(line, 2) = "access-list"
  /\ Word(line, 3) \in {"extended", "standard"}

RE_IP_ADDRESS(line) ==
  /\ line.indent
  /\ Word(line, 1) = "ip"
  /\ Word(line, 2) = "address"
  /\ Word(line, 3) \in DottedQuads
  /\ Word(line, 4) \in DottedQuads

RE_DESCRIPTION(line) ==
  line.indent /\ Len(line.words) >= 2 /\ Word(line, 1) = "description"

RE_SHUTDOWN(line) == line.indent /\ Word(line, 1) = "shutdown"

RE_OSPF_INTERFACE(line) ==
  /\ line.indent
  /\ Word(line, 1) = "ip"
  /\ Word(line, 2) = "ospf"
  /\ Word(line, 3) \in Decimals
  /\ Word(line, 4) = "area"
  /\ Word(line, 5) \in Decimals

RE_OSPF_NETWORK_TYPE(line) ==
  /\ line.indent
  /\ Len(line.words) >= 4
  /\ Word(line, 1) = "ip"
  /\ Word(line, 2) = "ospf"
  /\ Word(line, 3) = "network"

RE_ACL_GROUP(line) ==
  /\ line.indent
  /\ Word(line, 1) = "ip"
  /\ Word(line, 2) = "access-group"
  /\ Len(line.words) >= 4
  /\ Word(line, 4) \in {"in", "out"}

RE_ROUTER_ID(line) ==
  line.indent /\ Len(line.words) >= 2 /\ Word(line, 1) = "router-id"

RE_NETWORK_STMT(line) ==
  /\ line.indent
  /\ Word(line, 1) = "network"
  /\ Word(line, 2) \in DottedQuads
  /\ Word(line, 3) \in DottedQuads
  /\ Word(line, 4) = "area"
  /\ Word(line, 5) \in Decimals

RE_PASSIVE_INTF(line) ==
  line.indent /\ Len(line.words) >= 2 /\ Word(line, 1) = "passive-interface"

\* stripped.startswith('!')
StartsWithBang(line) == Word(line, 1) = "!"

\* stripped == '!' or stripped == 'end'
IsSectionExit(line) == line.words = << "!" >> \/ line.words = << "end" >>

IsPreamble(line) ==
  /\ Word(line, 1) \in {"Building", "Current"}
  /\ Word(line, 2) \in {"configuration...", "configuration"}

IsPrompt(line) == Word(line, 1) \in PromptWords /\ ~StartsWithBang(line)

\* the loop of _clean_config_output over lines[n..], cleaned so far in acc
RECURSIVE CleanFrom(_, _, _, _)
CleanFrom(lines, n, in_config, acc) ==
  IF n > Len(lines) THEN acc
  ELSE IF IsPreamble(lines[n]) THEN CleanFrom(lines, n + 1, TRUE, acc)
  ELSE LET started == in_config \/ StartsWithBang(lines[n]) IN
       IF ~started THEN CleanFrom(lines, n + 1, FALSE, acc)
       ELSE IF IsPrompt(lines[n]) THEN acc
       ELSE CleanFrom(lines, n + 1, TRUE, Append(acc, lines[n]))

clean_config_output(raw) ==
  LET cleaned == CleanFrom(raw, 1, FALSE, << >>) IN
  IF cleaned # << >> THEN cleaned ELSE raw

NewInterfaceConfig(name) ==
  [name |-> name, ip_address |-> NoneStr, subnet_mask |-> NoneStr,
   description |-> NoneList, shutdown |-> FALSE,
   ospf_process_id |-> None, ospf_area |-> None,
   ospf_network_type |-> NoneStr, acl_in |-> NoneStr, acl_out |-> NoneStr]

NewOSPFProcessConfig(pid) ==
  [process_id |-> pid, router_id |-> NoneStr,
   network_statements |-> << >>, passive_interfaces |-> << >>]

NewAccessListConfig(name, acl_type) ==
  [name |-> name, acl_type |-> acl_type, rules |-> << >>]

NewAccessListRule ==
  [sequence |-> None, action |-> "permit", protocol |-> "ip",
   source |-> "any", destination |-> << "any" >>]

NewParsedConfig ==
  [hostname |-> "Router", interfaces |-> << >>, ospf_processes |-> << >>,
   access_lists |-> << >>]

\* the section-specific matchers of an interface section (224-258)
IsInterfaceBody(line) ==
  \/ RE_IP_ADDRESS(line) \/ RE_DESCRIPTION(line) \/ RE_SHUTDOWN(line)
  \/ RE_OSPF_INTERFACE(line) \/ RE_OSPF_NETWORK_TYPE(line) \/ RE_ACL_GROUP(line)

interface_body(current_interface, line) ==
  IF RE_IP_ADDRESS(line)
    THEN [current_interface EXCEPT !.ip_address = Word(line, 3),
                                   !.subnet_mask = Word(line, 4)]
  ELSE IF RE_DESCRIPTION(line)
    THEN [current_interface EXCEPT
            !.description = [is_none |-> FALSE, items |-> Rest(line, 2)]]
  ELSE IF RE_SHUTDOWN(line)
    THEN [current_interface EXCEPT !.shutdown = TRUE]
  ELSE IF RE_OSPF_INTERFACE(line)
    THEN [current_interface EXCEPT
            !.ospf_process_id = DecimalValue[Word(line, 3)],
            !.ospf_area = DecimalValue[Word(line, 5)]]
  ELSE IF RE_OSPF_NETWORK_TYPE(line)
    THEN [current_interface EXCEPT !.ospf_network_type = Word(line, 4)]
  ELSE IF RE_ACL_GROUP(line)
    THEN IF Word(line, 4) = "in"
           THEN [current_interface EXCEPT !.acl_in = Word(line, 3)]
           ELSE [current_interface EXCEPT !.acl_out = Word(line, 3)]
  ELSE current_interface

\* the section-specific matchers of a router ospf section (261-278)
IsOspfBody(line) ==
  RE_ROUTER_ID(line) \/ RE_NETWORK_STMT(line) \/ RE_PASSIVE_INTF(line)

ospf_body(current_ospf, line) ==
  IF RE_ROUTER_ID(line)
    THEN [current_ospf EXCEPT !.router_id = Word(line, 2)]
  ELSE IF RE_NETWORK_STMT(line)
    THEN [current_ospf EXCEPT
            !.network_statements =
               Append(@, [network |-> Word(line, 2), wildcard |-> Word(line, 3),
                          area |-> DecimalValue[Word(line, 5)]])]
  ELSE IF RE_PASSIVE_INTF(line)
    THEN [current_ospf EXCEPT !.passive_interfaces = Append(@, Word(line, 2))]
  ELSE current_ospf

\* the rule parser of an access-list section (281-305); lines need no
\* indentation here
IsAclKeyword(line) == Word(line, 1) \in {"permit", "deny"}

IsAclNumbered(line) == ~IsAclKeyword(line) /\ Word(line, 1) \in IsDigitWords

\* int(parts[0]) of a numbered entry raises ValueError
AclRaises(line) ==
  ~StartsWithBang(line) /\ IsAclNumbered(line) /\ Word(line, 1) \notin Decimals

AclRule(line) ==
  LET parts == line.words
      at == IF IsAclKeyword(line) THEN 0 ELSE 1
      has(n) == Len(parts) > n + at
  IN [sequence |-> IF IsAclKeyword(line) THEN None ELSE DecimalValue[parts[1]],
      action |-> IF IsAclKeyword(line) THEN parts[1]
                 ELSE IF has(0) THEN parts[2] ELSE "permit",
      protocol |-> IF has(1) THEN parts[2 + at] ELSE "ip",
      source |-> IF has(2) THEN parts[3 + at] ELSE "any",
      destination |-> IF has(3) THEN Rest(line, 4 + at) ELSE << "any" >>]

acl_body(current_acl, line) ==
  IF ~StartsWithBang(line) /\ (IsAclKeyword(line) \/ IsAclNumbered(line))
    THEN [current_acl EXCEPT !.rules = Append(@, AclRule(line))]
    ELSE current_acl

\* the locals of parse_running_config before the first line (153-158)
ScanStart ==
  [parsed |-> NewParsedConfig, current_section |-> "top",
   current_interface |-> NoneStr, current_ospf |-> None,
   current_acl |-> NoneStr, raised |-> FALSE]

AtTop(st) ==
  [st EXCEPT !.current_section = "top", !.current_interface = NoneStr,
             !.current_ospf = None, !.current_acl = NoneStr]

\* the section exit test that ends an iteration (308-314)
SectionExit(st, line) == IF IsSectionExit(line) THEN AtTop(st) ELSE st


\* one iteration of the loop of parse_running_config (160-314)
ParseLine(st, line) ==
  IF RE_HOSTNAME(line)
    THEN AtTop([st EXCEPT !.parsed.hostname = Word(line, 2)])
  ELSE IF RE_INTERFACE(line)
    THEN [st EXCEPT
            !.parsed.interfaces =
               (Word(line, 2) :> NewInterfaceConfig(Word(line, 2))) @@ @,
            !.current_section = "interface",
            !.current_interface = Word(line, 2),
            !.current_ospf = None,
            !.current_acl = NoneStr]
  ELSE IF RE_ROUTER_OSPF(line)
    THEN LET pid == DecimalValue[Word(line, 3)] IN
         [st EXCEPT
            !.parsed.ospf_processes =
               IF pid \in DOMAIN @ THEN @
               ELSE (pid :> NewOSPFProcessConfig(pid)) @@ @,
            !.current_section = "router_ospf",
            !.current_ospf = pid,
            !.current_interface = NoneStr,
            !.current_acl = NoneStr]
  ELSE IF RE_ACL_NAMED(line)
    THEN [st EXCEPT
            !.parsed.access_lists =
               (Word(line, 4) :> NewAccessListConfig(Word(line, 4), Word(line, 3))) @@ @,
            !.current_section = "acl",
            !.current_acl = Word(line, 4),
            !.current_interface = NoneStr,
            !.current_ospf = None]
  ELSE IF st.current_section = "interface"
    THEN IF IsInterfaceBody(line)
           THEN [st EXCEPT !.parsed.interfaces[st.current_interface] =
                              interface_body(@, line)]
           ELSE SectionExit(st, line)
  ELSE IF st.current_section = "router_ospf"
    THEN IF IsOspfBody(line)
           THEN [st EXCEPT !.parsed.ospf_processes[st.current_ospf] =
                              ospf_body(@, line)]
           ELSE SectionExit(st, line)
  ELSE IF st.current_section = "acl"
    THEN IF AclRaises(line)
           THEN [st EXCEPT !.raised = TRUE]
           ELSE SectionExit([st EXCEPT !.parsed.access_lists[st.current_acl] =
                                          acl_body(@, line)], line)
  ELSE SectionExit(st, line)

\* the lines of a device output
InputLines ==
  { ConfigLine(FALSE, << "R1#" >>),
    ConfigLine(FALSE, << "!" >>),
    ConfigLine(FALSE, << "end" >>),
    ConfigLine(FALSE, << "hostname", "R1" >>),
    ConfigLine(FALSE, << "interface", "Gi1" >>),
    ConfigLine(FALSE, << "interface", "Gi2" >>),
    ConfigLine(FALSE, << "router", "ospf", "1" >>),
    ConfigLine(FALSE, << "ip", "access-list", "extended", "A" >>),
    ConfigLine(TRUE, << "ip", "address", "10.0.0.1", "255.255.255.0" >>),
    ConfigLine(TRUE, << "description", "uplink" >>),
    ConfigLine(TRUE, << "shutdown" >>),
    ConfigLine(TRUE, << "ip", "ospf", "1", "area", "0" >>),
    ConfigLine(TRUE, << "ip", "access-group", "A", "in" >>),
    ConfigLine(TRUE, << "router-id", "1.1.1.1" >>),
    ConfigLine(TRUE, << "network", "10.0.0.0", "0.0.0.255", "area", "0" >>),
    ConfigLine(TRUE, << "passive-interface", "Gi1" >>),
    ConfigLine(TRUE, << "permit", "ip", "any", "any" >>),
    ConfigLine(TRUE, << "10", "deny", "ip", "any", "any" >>),
    ConfigLine(TRUE, << "U+00B2", "permit", "ip", "any", "any" >>),
    ConfigLine(TRUE, << "mtu", "1500" >>),
    ConfigLine(FALSE, << "line", "vty", "0", "4" >>) }

\* what "show running-config" prints first
Preambles == { << >>, << ConfigLine(FALSE, << "Building", "configuration..." >>) >> }

InitParser ==
  /\ db = NoJob
  /\ tasks = << >>
  /\ evt = "none"
  /\ rejected = FALSE
  /\ rollbacks = 0
  /\ \E head \in Preambles :
       \E lines \in UNION { [1..n -> InputLines] : n \in 0..MaxLines } :
         cfg = [pc |-> "clean", raw_config |-> head \o lines, config |-> << >>,
                pos |-> 0, st |-> ScanStart]

AfterLine(config, pos, st) ==
  IF st.raised THEN "raised" ELSE IF pos = Len(config) THEN "returned" ELSE "scan"

\* config = _clean_config_output(raw_config); raw_config is not read again
CleanConfig ==
  /\ cfg.pc = "clean"
  /\ LET config == clean_config_output(cfg.raw_config) IN
       cfg' = [cfg EXCEPT !.pc = AfterLine(config, 0, ScanStart),
                          !.raw_config = << >>,
                          !.config = config]
  /\ UNCHANGED << db, tasks, evt, rejected, rollbacks >>

\* one iteration of the loop; the function returns after the last line
ScanLine ==
  /\ cfg.pc = "scan"
  /\ LET st == ParseLine(cfg.st, cfg.config[cfg.pos + 1]) IN
       cfg' = [cfg EXCEPT !.pc = AfterLine(cfg.config, cfg.pos + 1, st),
                          !.pos = cfg.pos + 1,
                          !.st = st]
  /\ UNCHANGED << db, tasks, evt, rejected, rollbacks >>

NextParser == CleanConfig \/ ScanLine

SpecParser == InitParser /\ [][NextParser]_vars

\* ---- what the scan is expected to do, told from the lines read so far ----
OpensSection(line) == RE_INTERFACE(line) \/ RE_ROUTER_OSPF(line) \/ RE_ACL_NAMED(line)

ClosesSection(line) == IsSectionExit(line) \/ RE_HOSTNAME(line)

SectionKind(line) ==
  IF RE_INTERFACE(line) THEN "interface"
  ELSE IF RE_ROUTER_OSPF(line) THEN "router_ospf"
  ELSE IF RE_ACL_NAMED(line) THEN "acl"
  ELSE "top"

\* an access-list rule: permit, deny, or a decimal sequence number first
IsAclRuleLine(line) ==
  ~StartsWithBang(line) /\ (IsAclKeyword(line) \/ Word(line, 1) \in Decimals)

BodyKinds(line) ==
  { kind \in {"interface", "router_ospf", "acl"} :
      \/ kind = "interface" /\ IsInterfaceBody(line)
      \/ kind = "router_ospf" /\ IsOspfBody(line)
      \/ kind = "acl" /\ IsAclRuleLine(line) }

Unrecognized(line) ==
  ~OpensSection(line) /\ ~ClosesSection(line) /\ BodyKinds(line) = { }

\* position of the header of the section that is open at line n of config:
\* the last header before n, unless an exit line follows it; 0 at top level
OpenSection(config, n) ==
  LET headers == { h \in 1..(n - 1) : OpensSection(config[h]) } IN
  IF headers = { } THEN 0
  ELSE LET last == CHOOSE h \in headers : \A g \in headers : g <= h IN
       IF \E x \in (last + 1)..(n - 1) : ClosesSection(config[x]) THEN 0 ELSE last

\* the parsed model after a body line is attributed to the section of header
Attributed(parsed, header, line) ==
  IF SectionKind(header) = "interface"
    THEN [parsed EXCEPT !.interfaces[Word(header, 2)] = interface_body(@, line)]
  ELSE IF SectionKind(header) = "router_ospf"
    THEN [parsed EXCEPT !.ospf_processes[DecimalValue[Word(header, 3)]] =
                           ospf_body(@, line)]
  ELSE [parsed EXCEPT !.access_lists[Word(header, 4)] = acl_body(@, line)]

\* what the claim lets the line at position n do to the parsed model
LineFollowsSections(config, n, before, after) ==
  LET line == config[n]
      open == OpenSection(config, n)
  IN /\ ~after.raised
     /\ BodyKinds(line) # { } =>
          after.parsed =
            IF open # 0 /\ SectionKind(config[open]) \in BodyKinds(line)
              THEN Attributed(before.parsed, config[open], line)
              ELSE before.parsed
     /\ IsSectionExit(line) =>
          after.current_section = "top" /\ after.parsed = before.parsed
     /\ Unrecognized(line) => after = before

\* C32: the section state machine of parse_running_config.  Every
\* section-body line (interface: IP/mask, description, shutdown, OSPF area,
\* ACL binding; router ospf: router-id, network statement,
\* passive-interface; access list: rule) changes only the object of the
\* most recently opened section and only when that section is of the
\* line's kind; a "!" or "end" line returns to top level, so that body
\* lines after it change nothing until the next section header; a line the
\* parser does not recognize never raises and changes neither the parsed
\* model nor the current section.
C32_SectionStateMachine ==
  [][ ScanLine =>
        LineFollowsSections(cfg.config, cfg.pos + 1, cfg.st, cfg'.st) ]_vars

\* An access-list section holds a line that starts with a digit character
\* int() rejects: the only kind of line on which the scan leaves the above.
NonDecimalInAcl(config, n) ==
  /\ Word(config[n], 1) \in IsDigitWords \ Decimals
  /\ OpenSection(config, n) # 0
  /\ SectionKind(config[OpenSection(config, n)]) = "acl"

\* Apart from such a line the scan follows the sections, and on such a line
\* it raises.
SectionsExceptNonDecimal ==
  [][ ScanLine =>
        IF NonDecimalInAcl(cfg.config, cfg.pos + 1)
          THEN cfg'.st.raised
          ELSE LineFollowsSections(cfg.config, cfg.pos + 1, cfg.st, cfg'.st) ]_vars

\* a body line after "!" found no section, the same line before it did
SectionClosedSeen ==
  /\ cfg.pc = "returned"
  /\ cfg.pos >= 4
  /\ \E n \in 3..(cfg.pos - 1) :
       /\ IsSectionExit(cfg.config[n])
       /\ BodyKinds(cfg.config[n + 1]) # { }
       /\ cfg.config[n - 1] = cfg.config[n + 1]
       /\ OpenSection(cfg.config, n - 1) # 0
       /\ SectionKind(cfg.config[OpenSection(cfg.config, n - 1)])
            \in BodyKinds(cfg.config[n - 1])

====
